---- MODULE Spec2Model ----
(***************************************************************************)
(* ComponentFocusManager (packages/react-query-component-focus,            *)
(* componentFocusManager.ts): per-key focus records, the observers and     *)
(* pointer handlers a registration installs in the host document, the      *)
(* global visibility flag, listener notification and the refresh policy    *)
(* applied to the record's QueryClient on a focus gain.                    *)
(*                                                                         *)
(* One action is one synchronous call into the manager (a public method, a *)
(* closure it returned, or a host callback it installed).  The variables   *)
(* focusLog, notifyLog, dispatchLog, warnLog and lastOp observe what the   *)
(* action did: the changes of a focused flag, the calls on listeners, the  *)
(* runs of the refresh policy with their calls on a QueryClient, and the   *)
(* calls of console.warn.  Every action starts them afresh.                *)
(***************************************************************************)
EXTENDS Integers, Sequences, FiniteSets, TLC

(***************************************************************************)
(* Input domains                                                           *)
(***************************************************************************)
MaxRegs == 2            \* registerComponent calls with an element, per run

Keys == {"a", "b"}
Elements == {"e1", "e2"}
NoElement == "null"
Clients == {"q1"}
NoClient == "undefined"
Listeners == {"l1", "l2"}

\* JavaScript values of the boolean option fields.
Undefined == "undefined"
True == "true"
False == "false"

\* An object without own properties; also stands for an undefined object
\* where the code only spreads it or passes it on.
EmptyObject == [f \in {} |-> Undefined]

\* { ...a, ...b }: own properties of b override those of a, a property
\* whose value is undefined included.
Spread(a, b) ==
  [f \in (DOMAIN a) \cup (DOMAIN b) |-> IF f \in DOMAIN b THEN b[f] ELSE a[f]]

\* o.f for a possibly missing property.
Get(o, f) == IF f \in DOMAIN o THEN o[f] ELSE Undefined

\* if (o.f) for a boolean-or-undefined property.
Truthy(o, f) == Get(o, f) = True

\* Query filters handed to the manager in options.queryFilters.
QueryFilterChoices ==
  { EmptyObject,
    [queryKey |-> "todos"],
    [queryKey |-> "todos", type |-> "inactive", refetchType |-> "none"] }

\* options.queryFilters, spread or passed on (undefined spreads to nothing).
FiltersOf(o) == IF "queryFilters" \in DOMAIN o THEN o["queryFilters"] ELSE EmptyObject

\* The built-in defaults of the constructor.
DefaultOptions ==
  [refetchOnFocus |-> True, invalidateOnFocus |-> True,
   resetOnFocus |-> False, forceRefetch |-> True]

\* Every ComponentFocusManagerOptions object over the boolean fields (each
\* field missing, undefined, true or false), without and with queryFilters.
FlagFields == {"refetchOnFocus", "invalidateOnFocus", "resetOnFocus", "forceRefetch"}
FlagOptions == UNION {[S -> {True, False, Undefined}] : S \in SUBSET FlagFields}
AllOptions ==
  FlagOptions \cup
    {Spread(o, [queryFilters |-> f]) : o \in FlagOptions, f \in QueryFilterChoices}

\* Options passed to the constructor in the policy specification: none, and
\* those of the tests.
ConstructorChoices ==
  { EmptyObject,
    [refetchOnFocus |-> True, invalidateOnFocus |-> False],
    [resetOnFocus |-> True, invalidateOnFocus |-> False] }

\* Options passed to updateComponentOptions in the policy specification.
UpdateChoices ==
  { [resetOnFocus |-> False],
    [invalidateOnFocus |-> Undefined, forceRefetch |-> False],
    [queryFilters |-> [queryKey |-> "todos"]] }

\* The (key, element) pairs registered in the lifecycle specification.
RegistrationChoices == { <<"a", "e1">>, <<"a", "e2">>, <<"b", "e2">> }

VARIABLES
  options,                \* #options
  components,             \* #components: key -> ComponentFocusState
  componentOrder,         \* insertion order of #components
  globalFocused,          \* #globalFocused
  intersectionObservers,  \* #intersectionObservers: key -> observer
  mutationObservers,      \* #mutationObservers: key -> observer
  globalCleanup,          \* #globalCleanup is not null
  registrations,          \* the closures of each registerComponent call
  connectedIO,            \* intersection observers observing their element
  connectedMO,            \* mutation observers observing the parent
  pendingMutations,       \* mutation observers with queued removal records
  pointerHandlers,        \* registrations whose mouse handlers are attached
  inDocument,             \* elements contained in the document
  browser,                \* window, document and the observer classes exist
  focusLog,               \* changes of a focused flag in the last operation
  notifyLog,              \* listener calls made by the last operation
  dispatchLog,            \* handleComponentFocus runs of the last operation
  callLog,                \* listener calls and policy runs, in call order
  warnLog,                \* console.warn calls made by the last operation
  thrown,                 \* the exception the last operation ended with
  lastOp,                 \* the last operation and its arguments
  cacheSubscriptions,     \* persistQueryClientSubscribe calls: still subscribed?
  persistLog,             \* persister, dehydrate and hydrate calls of the last operation
  eventsEmitted,          \* cache events emitted so far
  saveCount,              \* persister.persistClient calls made so far
  persistence,            \* the variables of one persistQueryClient call
  hook,                   \* the rendered AutoFocus / useComponentFocus: its props
  hookEffect,             \* the closures held by the hook's registration effect
  timer,                  \* the pending AutoFocusEffect timeout
  hookLog,                \* manager calls made by the hook in the last step
  isFocused,              \* the hook's isFocused state, set by its listener
  group,                  \* the rendered useComponentFocusGroup: state and effect
  focusedComponentKeys    \* what its latest render returned

managerVars ==
  <<options, components, componentOrder, globalFocused,
    intersectionObservers, mutationObservers, globalCleanup>>
hostVars ==
  <<registrations, connectedIO, connectedMO, pendingMutations,
    pointerHandlers, inDocument, browser>>
logVars == <<focusLog, notifyLog, dispatchLog, callLog, warnLog, thrown, lastOp>>
persistVars ==
  <<cacheSubscriptions, persistLog, eventsEmitted, saveCount, persistence>>
\* What lies outside the focus manager and its host.
hookVars == <<hook, hookEffect, timer, hookLog, isFocused>>
groupVars == <<group, focusedComponentKeys>>
outerVars == <<persistVars, hookVars, groupVars>>
vars == <<managerVars, hostVars, logVars, outerVars>>

(***************************************************************************)
(* Sequence helpers                                                        *)
(***************************************************************************)
Range(s) == {s[i] : i \in 1..Len(s)}

\* Map.delete / Set.delete on an insertion-ordered collection.
Without(s, x) == SelectSeq(s, LAMBDA y : y # x)

\* Set.add: an element already present keeps its place.
AddLast(s, x) == IF x \in Range(s) THEN s ELSE Append(s, x)

\* A function without key k.
Delete(f, k) == [x \in (DOMAIN f) \ {k} |-> f[x]]

\* A function with key k set to v.
Put(f, k, v) == [x \in (DOMAIN f) \cup {k} |-> IF x = k THEN v ELSE f[x]]

(***************************************************************************)
(* The manager's methods, as functions of the state they read and write.   *)
(* w carries the fields a method may change and the calls made so far.     *)
(***************************************************************************)
World ==
  [components |-> components,
   componentOrder |-> componentOrder,
   intersectionObservers |-> intersectionObservers,
   mutationObservers |-> mutationObservers,
   connectedIO |-> connectedIO,
   connectedMO |-> connectedMO,
   pendingMutations |-> pendingMutations,
   focusLog |-> << >>,
   notifyLog |-> << >>,
   dispatchLog |-> << >>,
   callLog |-> << >>,
   browser |-> browser,
   thrown |-> << >>]

Commit(w) ==
  /\ components' = w.components
  /\ componentOrder' = w.componentOrder
  /\ intersectionObservers' = w.intersectionObservers
  /\ mutationObservers' = w.mutationObservers
  /\ connectedIO' = w.connectedIO
  /\ connectedMO' = w.connectedMO
  /\ pendingMutations' = w.pendingMutations
  /\ focusLog' = w.focusLog
  /\ notifyLog' = w.notifyLog
  /\ dispatchLog' = w.dispatchLog
  /\ callLog' = w.callLog
  /\ browser' = w.browser
  /\ thrown' = w.thrown

\* Variant: invalidateOnFocus is tested before resetOnFocus.
handleComponentFocus_InvalidateFirst(queryClient, componentOptions) ==
  LET merged == Spread(options, componentOptions)
      queryFilters == FiltersOf(merged)
  IN  IF Truthy(merged, "invalidateOnFocus")
        THEN << [method |-> "invalidateQueries",
                 filters |-> Spread(queryFilters,
                    [refetchType |-> IF Truthy(merged, "forceRefetch")
                                       THEN "all" ELSE "active"])] >>
      ELSE IF Truthy(merged, "resetOnFocus")
        THEN << [method |-> "resetQueries", filters |-> queryFilters] >>
      ELSE IF Truthy(merged, "refetchOnFocus")
        THEN << [method |-> "refetchQueries",
                 filters |-> Spread(queryFilters, [type |-> "active"])] >>
      ELSE << >>

\* Variant: the reset branch does not return and falls through.
handleComponentFocus_FallThrough(queryClient, componentOptions) ==
  LET merged == Spread(options, componentOptions)
      queryFilters == FiltersOf(merged)
      reset == IF Truthy(merged, "resetOnFocus")
                 THEN << [method |-> "resetQueries", filters |-> queryFilters] >>
                 ELSE << >>
  IN  IF Truthy(merged, "invalidateOnFocus")
        THEN reset \o << [method |-> "invalidateQueries",
                 filters |-> Spread(queryFilters,
                    [refetchType |-> IF Truthy(merged, "forceRefetch")
                                       THEN "all" ELSE "active"])] >>
      ELSE IF Truthy(merged, "refetchOnFocus")
        THEN reset \o << [method |-> "refetchQueries",
                 filters |-> Spread(queryFilters, [type |-> "active"])] >>
      ELSE reset

\* Variant: the two refetchType values are swapped.
handleComponentFocus_SwappedBreadth(queryClient, componentOptions) ==
  LET merged == Spread(options, componentOptions)
      queryFilters == FiltersOf(merged)
  IN  IF Truthy(merged, "resetOnFocus")
        THEN << [method |-> "resetQueries", filters |-> queryFilters] >>
      ELSE IF Truthy(merged, "invalidateOnFocus")
        THEN << [method |-> "invalidateQueries",
                 filters |-> Spread(queryFilters,
                    [refetchType |-> IF Truthy(merged, "forceRefetch")
                                       THEN "active" ELSE "all"])] >>
      ELSE IF Truthy(merged, "refetchOnFocus")
        THEN << [method |-> "refetchQueries",
                 filters |-> Spread(queryFilters, [type |-> "active"])] >>
      ELSE << >>

\* handleComponentFocus: the calls it makes on queryClient, in order.
handleComponentFocus(queryClient, componentOptions) ==
  LET merged == Spread(options, componentOptions)
      queryFilters == FiltersOf(merged)
  IN  IF Truthy(merged, "resetOnFocus")
        THEN << [method |-> "resetQueries", filters |-> queryFilters] >>
      ELSE IF Truthy(merged, "invalidateOnFocus")
        THEN << [method |-> "invalidateQueries",
                 filters |-> Spread(queryFilters,
                    [refetchType |-> IF Truthy(merged, "forceRefetch")
                                       THEN "all" ELSE "active"])] >>
      ELSE IF Truthy(merged, "refetchOnFocus")
        THEN << [method |-> "refetchQueries",
                 filters |-> Spread(queryFilters, [type |-> "active"])] >>
      ELSE << >>

\* component.listeners.forEach(listener => listener(focused))
NotifyListeners(componentKey, listeners, focused) ==
  [i \in 1..Len(listeners) |->
     [key |-> componentKey, listener |-> listeners[i], focused |-> focused]]

\* The same calls as entries of the call log.
ListenerCalls(componentKey, listeners, focused) ==
  [i \in 1..Len(listeners) |->
     [call |-> "listener", key |-> componentKey, target |-> listeners[i],
      focused |-> focused]]

\* this.handleComponentFocus(component.queryClient, component.options) as an
\* entry of the call log.
PolicyCall(componentKey, queryClient) ==
  [call |-> "policy", key |-> componentKey, target |-> queryClient,
   focused |-> TRUE]

\* Variant: listeners are called on every set, the value unchanged or not.
setComponentFocus_NotifyAlways(w, componentKey, focused) ==
  IF componentKey \notin DOMAIN w.components THEN w
  ELSE
    LET component == w.components[componentKey]
        previouslyFocused == component.focused
        w1 == [w EXCEPT !.components[componentKey].focused = focused,
                        !.focusLog = IF previouslyFocused # focused
                                       THEN Append(@, [key |-> componentKey,
                                                       focused |-> focused])
                                       ELSE @]
        w2 == [w1 EXCEPT !.notifyLog =
                 @ \o NotifyListeners(componentKey, component.listeners, focused),
                         !.callLog =
                 @ \o ListenerCalls(componentKey, component.listeners, focused)]
    IN  IF previouslyFocused = focused THEN w2
        ELSE
          IF focused /\ component.queryClient # NoClient
            THEN [w2 EXCEPT !.dispatchLog = Append(@,
                    [key |-> componentKey, client |-> component.queryClient,
                     calls |-> handleComponentFocus(component.queryClient,
                                                    component.options)]),
                                !.callLog = Append(@,
                    PolicyCall(componentKey, component.queryClient))]
            ELSE w2

\* Variant: the refresh policy runs on every change, a focus loss included.
setComponentFocus_DispatchOnLoss(w, componentKey, focused) ==
  IF componentKey \notin DOMAIN w.components THEN w
  ELSE
    LET component == w.components[componentKey]
        previouslyFocused == component.focused
        w1 == [w EXCEPT !.components[componentKey].focused = focused,
                        !.focusLog = IF previouslyFocused # focused
                                       THEN Append(@, [key |-> componentKey,
                                                       focused |-> focused])
                                       ELSE @]
    IN  IF previouslyFocused = focused THEN w1
        ELSE
          LET w2 == [w1 EXCEPT !.notifyLog =
                       @ \o NotifyListeners(componentKey, component.listeners, focused),
                               !.callLog =
                       @ \o ListenerCalls(componentKey, component.listeners, focused)]
          IN  IF component.queryClient # NoClient
                THEN [w2 EXCEPT !.dispatchLog = Append(@,
                        [key |-> componentKey, client |-> component.queryClient,
                         calls |-> handleComponentFocus(component.queryClient,
                                                        component.options)]),
                                    !.callLog = Append(@,
                        PolicyCall(componentKey, component.queryClient))]
                ELSE w2

\* Variant: the refresh policy runs before the listeners are called.
setComponentFocus_DispatchFirst(w, componentKey, focused) ==
  IF componentKey \notin DOMAIN w.components THEN w
  ELSE
    LET component == w.components[componentKey]
        previouslyFocused == component.focused
        w1 == [w EXCEPT !.components[componentKey].focused = focused,
                        !.focusLog = IF previouslyFocused # focused
                                       THEN Append(@, [key |-> componentKey,
                                                       focused |-> focused])
                                       ELSE @]
    IN  IF previouslyFocused = focused THEN w1
        ELSE
          LET w2 == IF focused /\ component.queryClient # NoClient
                      THEN [w1 EXCEPT !.dispatchLog = Append(@,
                              [key |-> componentKey, client |-> component.queryClient,
                               calls |-> handleComponentFocus(component.queryClient,
                                                              component.options)]),
                                      !.callLog = Append(@,
                              PolicyCall(componentKey, component.queryClient))]
                      ELSE w1
          IN  [w2 EXCEPT !.notifyLog =
                 @ \o NotifyListeners(componentKey, component.listeners, focused),
                         !.callLog =
                 @ \o ListenerCalls(componentKey, component.listeners, focused)]

\* Variant: a key without a record gets one, holding the value set.
setComponentFocus_CreatesRecord(w, componentKey, focused) ==
  IF componentKey \notin DOMAIN w.components
    THEN [w EXCEPT !.components = Put(@, componentKey,
                      [id |-> 0, focused |-> focused, queryClient |-> NoClient,
                       listeners |-> << >>, options |-> EmptyObject]),
                   !.componentOrder = Append(@, componentKey)]
  ELSE
    LET component == w.components[componentKey]
        previouslyFocused == component.focused
        w1 == [w EXCEPT !.components[componentKey].focused = focused,
                        !.focusLog = IF previouslyFocused # focused
                                       THEN Append(@, [key |-> componentKey,
                                                       focused |-> focused])
                                       ELSE @]
    IN  IF previouslyFocused = focused THEN w1
        ELSE
          LET w2 == [w1 EXCEPT !.notifyLog =
                       @ \o NotifyListeners(componentKey, component.listeners, focused),
                               !.callLog =
                       @ \o ListenerCalls(componentKey, component.listeners, focused)]
          IN  IF focused /\ component.queryClient # NoClient
                THEN [w2 EXCEPT !.dispatchLog = Append(@,
                        [key |-> componentKey, client |-> component.queryClient,
                         calls |-> handleComponentFocus(component.queryClient,
                                                        component.options)]),
                                    !.callLog = Append(@,
                        PolicyCall(componentKey, component.queryClient))]
                ELSE w2

setComponentFocus(w, componentKey, focused) ==
  IF componentKey \notin DOMAIN w.components THEN w
  ELSE
    LET component == w.components[componentKey]
        previouslyFocused == component.focused
        w1 == [w EXCEPT !.components[componentKey].focused = focused,
                        !.focusLog = IF previouslyFocused # focused
                                       THEN Append(@, [key |-> componentKey,
                                                       focused |-> focused])
                                       ELSE @]
    IN  IF previouslyFocused = focused THEN w1
        ELSE
          LET w2 == [w1 EXCEPT !.notifyLog =
                       @ \o NotifyListeners(componentKey, component.listeners, focused),
                               !.callLog =
                       @ \o ListenerCalls(componentKey, component.listeners, focused)]
          IN  IF focused /\ component.queryClient # NoClient
                THEN [w2 EXCEPT !.dispatchLog = Append(@,
                        [key |-> componentKey, client |-> component.queryClient,
                         calls |-> handleComponentFocus(component.queryClient,
                                                        component.options)]),
                                    !.callLog = Append(@,
                        PolicyCall(componentKey, component.queryClient))]
                ELSE w2

\* Variant: the observers are disconnected but the record stays in the map.
unregisterComponent_KeepsRecord(w, componentKey) ==
  LET io == IF componentKey \in DOMAIN w.intersectionObservers
              THEN {w.intersectionObservers[componentKey]} ELSE {}
      mo == IF componentKey \in DOMAIN w.mutationObservers
              THEN {w.mutationObservers[componentKey]} ELSE {}
  IN  [w EXCEPT !.connectedIO = @ \ io,
                !.intersectionObservers = Delete(@, componentKey),
                !.connectedMO = @ \ mo,
                !.pendingMutations = @ \ mo,
                !.mutationObservers = Delete(@, componentKey)]

\* Variant: the mutation observer of the key is neither disconnected nor
\* forgotten.
unregisterComponent_LeavesMutationObserver(w, componentKey) ==
  LET io == IF componentKey \in DOMAIN w.intersectionObservers
              THEN {w.intersectionObservers[componentKey]} ELSE {}
  IN  [w EXCEPT !.connectedIO = @ \ io,
                !.intersectionObservers = Delete(@, componentKey),
                !.components = Delete(@, componentKey),
                !.componentOrder = Without(@, componentKey)]

\* Variant: the record is blurred, its listeners told, before it is deleted.
unregisterComponent_NotifiesBlur(w, componentKey) ==
  LET w0 == setComponentFocus(w, componentKey, FALSE)
      io == IF componentKey \in DOMAIN w0.intersectionObservers
              THEN {w0.intersectionObservers[componentKey]} ELSE {}
      mo == IF componentKey \in DOMAIN w0.mutationObservers
              THEN {w0.mutationObservers[componentKey]} ELSE {}
  IN  [w0 EXCEPT !.connectedIO = @ \ io,
                 !.intersectionObservers = Delete(@, componentKey),
                 !.connectedMO = @ \ mo,
                 !.pendingMutations = @ \ mo,
                 !.mutationObservers = Delete(@, componentKey),
                 !.components = Delete(@, componentKey),
                 !.componentOrder = Without(@, componentKey)]

unregisterComponent(w, componentKey) ==
  LET io == IF componentKey \in DOMAIN w.intersectionObservers
              THEN {w.intersectionObservers[componentKey]} ELSE {}
      mo == IF componentKey \in DOMAIN w.mutationObservers
              THEN {w.mutationObservers[componentKey]} ELSE {}
  IN  [w EXCEPT !.connectedIO = @ \ io,
                !.intersectionObservers = Delete(@, componentKey),
                !.connectedMO = @ \ mo,
                !.pendingMutations = @ \ mo,
                !.mutationObservers = Delete(@, componentKey),
                !.components = Delete(@, componentKey),
                !.componentOrder = Without(@, componentKey)]

\* Variant: the loop over the records stops after the first one.
blurEach_FirstOnly(w, keys) ==
  IF keys = << >> THEN w
  ELSE setComponentFocus(w, Head(keys), FALSE)

\* this.#components.forEach((_, key) => this.setComponentFocus(key, false))
RECURSIVE blurEach(_, _)
blurEach(w, keys) ==
  IF keys = << >> THEN w
  ELSE blurEach(setComponentFocus(w, Head(keys), FALSE), Tail(keys))

\* this.#components.forEach((_, key) => this.unregisterComponent(key))
RECURSIVE unregisterEach(_, _)
unregisterEach(w, keys) ==
  IF keys = << >> THEN w
  ELSE unregisterEach(unregisterComponent(w, Head(keys)), Tail(keys))

\* Variant: regaining global visibility focuses every record again.
notifyAllComponents_RestoreOnShow(w, nowFocused) ==
  IF nowFocused
    THEN [w EXCEPT !.components =
            [k \in DOMAIN @ |-> [@[k] EXCEPT !.focused = TRUE]]]
    ELSE blurEach(w, w.componentOrder)

\* Variant: the forced blur stops after the first record.
notifyAllComponents_FirstOnly(w, nowFocused) ==
  IF nowFocused \/ w.componentOrder = << >> THEN w
  ELSE setComponentFocus(w, Head(w.componentOrder), FALSE)

notifyAllComponents(w, nowFocused) ==
  IF nowFocused THEN w ELSE blurEach(w, w.componentOrder)

\* Queries
isComponentFocused(componentKey) ==
  IF componentKey \in DOMAIN components THEN components[componentKey].focused ELSE FALSE

isGloballyFocused == globalFocused

getRegisteredComponents == componentOrder

(***************************************************************************)
(* Initial state: a manager just constructed in a browser document that    *)
(* holds every element.                                                    *)
(***************************************************************************)
NoEntries == [k \in {} |-> 0]

MaxDelay == 2

\* The props an AutoFocus (a ComponentFocus with a timer) is rendered with:
\* element is what the ref holds when the effects run, onFocusChange the
\* identity of the callback passed.
HookProps ==
  [componentKey : Keys, enabled : BOOLEAN, element : {"e1", NoElement},
   invalidateOnFocus : {True, False}, autoFocus : BOOLEAN,
   autoFocusDelay : 0..MaxDelay, onFocusChange : {"f1"}]

\* Nothing rendered yet.
InitHook ==
  /\ hook = [mounted |-> FALSE,
             props |-> [componentKey |-> "a", enabled |-> TRUE, element |-> "e1",
                        invalidateOnFocus |-> True, autoFocus |-> TRUE,
                        autoFocusDelay |-> 0, onFocusChange |-> "f1"]]
  /\ hookEffect = << >>
  /\ timer = << >>
  /\ hookLog = << >>
  /\ isFocused = FALSE

\* No group rendered yet.
InitGroup ==
  /\ group = [mounted |-> FALSE, state |-> << >>, unsubscribes |-> << >>]
  /\ focusedComponentKeys = << >>

\* No persistQueryClientSubscribe call made, no cache event emitted.
InitPersist ==
  /\ cacheSubscriptions = << >>
  /\ persistLog = << >>
  /\ eventsEmitted = 0
  /\ saveCount = 0
  /\ persistence = [restore |-> "none", hasUnsubscribed |-> FALSE,
                    persistQueryClientUnsubscribe |-> 0]

Init ==
  /\ options = Spread(DefaultOptions, EmptyObject)
  /\ components = NoEntries
  /\ componentOrder = << >>
  /\ globalFocused = TRUE
  /\ intersectionObservers = NoEntries
  /\ mutationObservers = NoEntries
  /\ globalCleanup = TRUE
  /\ registrations = << >>
  /\ connectedIO = {}
  /\ connectedMO = {}
  /\ pendingMutations = {}
  /\ pointerHandlers = {}
  /\ inDocument = Elements
  /\ browser = TRUE
  /\ thrown = << >>
  /\ focusLog = << >>
  /\ notifyLog = << >>
  /\ dispatchLog = << >>
  /\ callLog = << >>
  /\ warnLog = << >>
  /\ lastOp = [op |-> "constructor"]
  /\ InitPersist
  /\ InitHook
  /\ InitGroup

(***************************************************************************)
(* Public methods                                                          *)
(***************************************************************************)
\* Variant: a fresh record starts with the global flag as its focus.
NewComponentState_FromGlobal(id, queryClient, componentOptions) ==
  [id |-> id, focused |-> globalFocused, queryClient |-> queryClient,
   listeners |-> << >>, options |-> componentOptions]

\* A fresh ComponentFocusState; id is the identity of the object, which the
\* closures of its registration and of its subscriptions hold on to.
NewComponentState(id, queryClient, componentOptions) ==
  [id |-> id, focused |-> FALSE, queryClient |-> queryClient,
   listeners |-> << >>, options |-> componentOptions]

\* Variant: the key is unregistered before the element is looked at.
RegisterComponent_UnregisterFirst(componentKey, element, queryClient, componentOptions) ==
  /\ lastOp' = [op |-> "registerComponent", key |-> componentKey]
  /\ IF element = NoElement
       THEN /\ warnLog' = << "Element not found for component" >>
            /\ Commit(unregisterComponent(World, componentKey))
            /\ UNCHANGED <<registrations, pointerHandlers>>
       ELSE /\ Len(registrations) < MaxRegs
            /\ LET id == Len(registrations) + 1
                   w1 == unregisterComponent(World, componentKey)
                   hasParent == element \in inDocument
                   w2 == [w1 EXCEPT
                            !.components = Put(@, componentKey,
                               NewComponentState(id, queryClient, componentOptions)),
                            !.componentOrder = Append(@, componentKey),
                            !.intersectionObservers = Put(@, componentKey, id),
                            !.connectedIO = @ \cup {id},
                            !.mutationObservers =
                               IF hasParent THEN Put(@, componentKey, id) ELSE @,
                            !.connectedMO = IF hasParent THEN @ \cup {id} ELSE @]
               IN  /\ Commit(w2)
                   /\ registrations' = Append(registrations,
                                         [key |-> componentKey, element |-> element])
                   /\ pointerHandlers' = pointerHandlers \cup {id}
            /\ warnLog' = << >>
  /\ UNCHANGED <<outerVars, options, globalFocused, globalCleanup, inDocument>>

RegisterComponent(componentKey, element, queryClient, componentOptions) ==
  /\ lastOp' = [op |-> "registerComponent", key |-> componentKey]
  /\ IF element = NoElement
       THEN /\ warnLog' = << "Element not found for component" >>
            /\ Commit(World)
            /\ UNCHANGED <<registrations, pointerHandlers>>
       ELSE IF ~browser
       THEN \* new IntersectionObserver(...) with no such class: the call ends
            \* there, after the record was stored, returning nothing.
            /\ LET id == Len(registrations) + 1
                   w1 == unregisterComponent(World, componentKey)
               IN  Commit([w1 EXCEPT
                     !.components = Put(@, componentKey,
                        NewComponentState(id, queryClient, componentOptions)),
                     !.componentOrder = Append(@, componentKey),
                     !.thrown = << "ReferenceError" >>])
            /\ warnLog' = << >>
            /\ UNCHANGED <<registrations, pointerHandlers>>
       ELSE /\ Len(registrations) < MaxRegs
            /\ LET id == Len(registrations) + 1
                   w1 == unregisterComponent(World, componentKey)
                   hasParent == element \in inDocument
                   w2 == [w1 EXCEPT
                            !.components = Put(@, componentKey,
                               NewComponentState(id, queryClient, componentOptions)),
                            !.componentOrder = Append(@, componentKey),
                            !.intersectionObservers = Put(@, componentKey, id),
                            !.connectedIO = @ \cup {id},
                            !.mutationObservers =
                               IF hasParent THEN Put(@, componentKey, id) ELSE @,
                            !.connectedMO = IF hasParent THEN @ \cup {id} ELSE @]
               IN  /\ Commit(w2)
                   /\ registrations' = Append(registrations,
                                         [key |-> componentKey, element |-> element])
                   /\ pointerHandlers' = pointerHandlers \cup {id}
            /\ warnLog' = << >>
  /\ UNCHANGED <<outerVars, options, globalFocused, globalCleanup, inDocument>>

\* Variant: unregisterComponent also takes the mouse handlers of the key off
\* their elements.
UnregisterComponent_DetachesHandlers(componentKey) ==
  /\ lastOp' = [op |-> "unregisterComponent", key |-> componentKey]
  /\ Commit(unregisterComponent(World, componentKey))
  /\ pointerHandlers' =
       {id \in pointerHandlers : registrations[id].key # componentKey}
  /\ warnLog' = << >>
  /\ UNCHANGED <<outerVars, options, globalFocused, globalCleanup, registrations,
                 inDocument>>

UnregisterComponent(componentKey) ==
  /\ lastOp' = [op |-> "unregisterComponent", key |-> componentKey]
  /\ Commit(unregisterComponent(World, componentKey))
  /\ warnLog' = << >>
  /\ UNCHANGED <<outerVars, options, globalFocused, globalCleanup, registrations,
                 pointerHandlers, inDocument>>

\* Variant: the closure unregisters the key and leaves the mouse handlers on
\* the element.
Teardown_KeepsHandlers(id) ==
  /\ id \in 1..Len(registrations)
  /\ lastOp' = [op |-> "teardown", key |-> registrations[id].key]
  /\ pointerHandlers' = pointerHandlers
  /\ Commit(unregisterComponent(World, registrations[id].key))
  /\ warnLog' = << >>
  /\ UNCHANGED <<outerVars, options, globalFocused, globalCleanup, registrations,
                 inDocument>>

\* Variant: the closure unregisters the key only while the record under it
\* is the one of its own registration.
Teardown_OwnRecordOnly(id) ==
  /\ id \in 1..Len(registrations)
  /\ lastOp' = [op |-> "teardown", key |-> registrations[id].key]
  /\ pointerHandlers' = pointerHandlers \ {id}
  /\ IF /\ registrations[id].key \in DOMAIN components
        /\ components[registrations[id].key].id = id
       THEN Commit(unregisterComponent(World, registrations[id].key))
       ELSE Commit(World)
  /\ warnLog' = << >>
  /\ UNCHANGED <<outerVars, options, globalFocused, globalCleanup, registrations,
                 inDocument>>

\* The closure returned by the id-th registerComponent call.
Teardown(id) ==
  /\ id \in 1..Len(registrations)
  /\ lastOp' = [op |-> "teardown", key |-> registrations[id].key]
  /\ pointerHandlers' = pointerHandlers \ {id}
  /\ Commit(unregisterComponent(World, registrations[id].key))
  /\ warnLog' = << >>
  /\ UNCHANGED <<outerVars, options, globalFocused, globalCleanup, registrations,
                 inDocument>>

SetComponentFocus(componentKey, focused) ==
  /\ lastOp' = [op |-> "setComponentFocus", key |-> componentKey, focused |-> focused]
  /\ Commit(setComponentFocus(World, componentKey, focused))
  /\ warnLog' = << >>
  /\ UNCHANGED <<outerVars, options, globalFocused, globalCleanup, registrations,
                 pointerHandlers, inDocument>>

FocusComponent(componentKey) == SetComponentFocus(componentKey, TRUE)

BlurComponent(componentKey) == SetComponentFocus(componentKey, FALSE)

\* Variant: blurAllComponents() also clears the global flag.
BlurAllComponents_ClearsGlobal ==
  /\ lastOp' = [op |-> "blurAllComponents"]
  /\ Commit(blurEach(World, componentOrder))
  /\ globalFocused' = FALSE
  /\ warnLog' = << >>
  /\ UNCHANGED <<outerVars, options, globalCleanup, registrations,
                 pointerHandlers, inDocument>>

BlurAllComponents ==
  /\ lastOp' = [op |-> "blurAllComponents"]
  /\ Commit(blurEach(World, componentOrder))
  /\ warnLog' = << >>
  /\ UNCHANGED <<outerVars, options, globalFocused, globalCleanup, registrations,
                 pointerHandlers, inDocument>>

\* Variant: subscribing calls every listener of the record.
SubscribeToComponent_NotifyAll(componentKey, listener) ==
  /\ lastOp' = [op |-> "subscribeToComponent", key |-> componentKey]
  /\ IF componentKey \notin DOMAIN components
       THEN /\ warnLog' = << "is not registered" >>
            /\ Commit(World)
       ELSE /\ Commit([World EXCEPT
                 !.components[componentKey].listeners = AddLast(@, listener),
                 !.notifyLog = NotifyListeners(componentKey,
                                 AddLast(components[componentKey].listeners, listener),
                                 components[componentKey].focused),
                 !.callLog = ListenerCalls(componentKey,
                                 AddLast(components[componentKey].listeners, listener),
                                 components[componentKey].focused)])
            /\ warnLog' = << >>
  /\ UNCHANGED <<outerVars, options, globalFocused, globalCleanup, registrations,
                 pointerHandlers, inDocument>>

\* Variant: on an unregistered key the listener is still called, with false.
SubscribeToComponent_CallsAnyway(componentKey, listener) ==
  /\ lastOp' = [op |-> "subscribeToComponent", key |-> componentKey]
  /\ IF componentKey \notin DOMAIN components
       THEN /\ warnLog' = << "is not registered" >>
            /\ Commit([World EXCEPT
                 !.notifyLog = << [key |-> componentKey, listener |-> listener,
                                   focused |-> FALSE] >>,
                 !.callLog = ListenerCalls(componentKey, << listener >>, FALSE)])
       ELSE /\ Commit([World EXCEPT
                 !.components[componentKey].listeners = AddLast(@, listener),
                 !.notifyLog = << [key |-> componentKey, listener |-> listener,
                                   focused |-> components[componentKey].focused] >>,
                 !.callLog = ListenerCalls(componentKey, << listener >>,
                                           components[componentKey].focused)])
            /\ warnLog' = << >>
  /\ UNCHANGED <<outerVars, options, globalFocused, globalCleanup, registrations,
                 pointerHandlers, inDocument>>

\* Variant: subscribing to a record marks it focused.
SubscribeToComponent_FocusesRecord(componentKey, listener) ==
  /\ lastOp' = [op |-> "subscribeToComponent", key |-> componentKey]
  /\ IF componentKey \notin DOMAIN components
       THEN /\ warnLog' = << "is not registered" >>
            /\ Commit(World)
       ELSE /\ Commit([World EXCEPT
                 !.components[componentKey].listeners = AddLast(@, listener),
                 !.components[componentKey].focused = TRUE,
                 !.notifyLog = << [key |-> componentKey, listener |-> listener,
                                   focused |-> components[componentKey].focused] >>,
                 !.callLog = ListenerCalls(componentKey, << listener >>,
                                           components[componentKey].focused)])
            /\ warnLog' = << >>
  /\ UNCHANGED <<outerVars, options, globalFocused, globalCleanup, registrations,
                 pointerHandlers, inDocument>>

SubscribeToComponent(componentKey, listener) ==
  /\ lastOp' = [op |-> "subscribeToComponent", key |-> componentKey]
  /\ IF componentKey \notin DOMAIN components
       THEN /\ warnLog' = << "is not registered" >>
            /\ Commit(World)
       ELSE /\ Commit([World EXCEPT
                 !.components[componentKey].listeners = AddLast(@, listener),
                 !.notifyLog = << [key |-> componentKey, listener |-> listener,
                                   focused |-> components[componentKey].focused] >>,
                 !.callLog = ListenerCalls(componentKey, << listener >>,
                                           components[componentKey].focused)])
            /\ warnLog' = << >>
  /\ UNCHANGED <<outerVars, options, globalFocused, globalCleanup, registrations,
                 pointerHandlers, inDocument>>

\* Variant: the closure looks its key up again and deletes the listener from
\* the record found there.
Unsubscribe_ByKey(id, listener) ==
  /\ id \in 1..Len(registrations)
  /\ lastOp' = [op |-> "unsubscribe", key |-> registrations[id].key,
                id |-> id, listener |-> listener]
  /\ Commit([World EXCEPT !.components =
        [k \in DOMAIN components |->
           IF k = registrations[id].key
             THEN [components[k] EXCEPT !.listeners = Without(@, listener)]
             ELSE components[k]]])
  /\ warnLog' = << >>
  /\ UNCHANGED <<outerVars, options, globalFocused, globalCleanup, registrations,
                 pointerHandlers, inDocument>>

\* The closure returned by subscribeToComponent(key, listener) on the record
\* of registration id: component.listeners.delete(listener) on that record,
\* whether it is still registered or not.  A closure exists once listener was
\* subscribed to the record; for a pair never subscribed the step is the one
\* of a closure called again after its listener was deleted.
Unsubscribe(id, listener) ==
  /\ id \in 1..Len(registrations)
  /\ lastOp' = [op |-> "unsubscribe", key |-> registrations[id].key,
                id |-> id, listener |-> listener]
  /\ Commit([World EXCEPT !.components =
        [k \in DOMAIN components |->
           IF components[k].id = id
             THEN [components[k] EXCEPT !.listeners = Without(@, listener)]
             ELSE components[k]]])
  /\ warnLog' = << >>
  /\ UNCHANGED <<outerVars, options, globalFocused, globalCleanup, registrations,
                 pointerHandlers, inDocument>>

\* Variant: the QueryClient is stored only in a record that has none.
UpdateComponentQueryClient_OnlyIfAbsent(componentKey, queryClient) ==
  /\ lastOp' = [op |-> "updateComponentQueryClient", key |-> componentKey]
  /\ IF componentKey \notin DOMAIN components
       THEN Commit(World)
       ELSE Commit([World EXCEPT !.components[componentKey].queryClient =
                      IF @ = NoClient THEN queryClient ELSE @])
  /\ warnLog' = << >>
  /\ UNCHANGED <<outerVars, options, globalFocused, globalCleanup, registrations,
                 pointerHandlers, inDocument>>

UpdateComponentQueryClient(componentKey, queryClient) ==
  /\ lastOp' = [op |-> "updateComponentQueryClient", key |-> componentKey]
  /\ IF componentKey \notin DOMAIN components
       THEN Commit(World)
       ELSE Commit([World EXCEPT !.components[componentKey].queryClient = queryClient])
  /\ warnLog' = << >>
  /\ UNCHANGED <<outerVars, options, globalFocused, globalCleanup, registrations,
                 pointerHandlers, inDocument>>

\* Variant: the new options replace the record's options.
UpdateComponentOptions_Replaces(componentKey, newOptions) ==
  /\ lastOp' = [op |-> "updateComponentOptions", key |-> componentKey]
  /\ IF componentKey \notin DOMAIN components
       THEN Commit(World)
       ELSE Commit([World EXCEPT !.components[componentKey].options = newOptions])
  /\ warnLog' = << >>
  /\ UNCHANGED <<outerVars, options, globalFocused, globalCleanup, registrations,
                 pointerHandlers, inDocument>>

UpdateComponentOptions(componentKey, newOptions) ==
  /\ lastOp' = [op |-> "updateComponentOptions", key |-> componentKey]
  /\ IF componentKey \notin DOMAIN components
       THEN Commit(World)
       ELSE Commit([World EXCEPT !.components[componentKey].options =
                                    Spread(@, newOptions)])
  /\ warnLog' = << >>
  /\ UNCHANGED <<outerVars, options, globalFocused, globalCleanup, registrations,
                 pointerHandlers, inDocument>>

\* Variant: the records are unregistered and the global listeners stay.
Destroy_KeepsListeners ==
  /\ lastOp' = [op |-> "destroy"]
  /\ Commit(unregisterEach(World, componentOrder))
  /\ globalCleanup' = globalCleanup
  /\ warnLog' = << >>
  /\ UNCHANGED <<outerVars, options, globalFocused, registrations,
                 pointerHandlers, inDocument>>

Destroy ==
  /\ lastOp' = [op |-> "destroy"]
  /\ Commit(unregisterEach(World, componentOrder))
  /\ globalCleanup' = FALSE
  /\ warnLog' = << >>
  /\ UNCHANGED <<outerVars, options, globalFocused, registrations,
                 pointerHandlers, inDocument>>

(***************************************************************************)
(* Host callbacks: the global listeners of setupGlobalFocusListener and    *)
(* the observer callbacks and mouse handlers of registerComponent.         *)
(***************************************************************************)
HandleVisibilityChange(visibilityState) ==
  /\ globalCleanup
  /\ lastOp' = [op |-> "visibilitychange"]
  /\ globalFocused' = (visibilityState = "visible")
  /\ Commit(notifyAllComponents(World, visibilityState = "visible"))
  /\ warnLog' = << >>
  /\ UNCHANGED <<outerVars, options, globalCleanup, registrations,
                 pointerHandlers, inDocument>>

HandleWindowFocus ==
  /\ globalCleanup
  /\ lastOp' = [op |-> "focus"]
  /\ globalFocused' = TRUE
  /\ Commit(notifyAllComponents(World, TRUE))
  /\ warnLog' = << >>
  /\ UNCHANGED <<outerVars, options, globalCleanup, registrations,
                 pointerHandlers, inDocument>>

\* Variant: the blur handler clears the global flag and leaves the records.
HandleWindowBlur_KeepsFocus ==
  /\ globalCleanup
  /\ lastOp' = [op |-> "blur"]
  /\ globalFocused' = FALSE
  /\ Commit(World)
  /\ warnLog' = << >>
  /\ UNCHANGED <<outerVars, options, globalCleanup, registrations,
                 pointerHandlers, inDocument>>

HandleWindowBlur ==
  /\ globalCleanup
  /\ lastOp' = [op |-> "blur"]
  /\ globalFocused' = FALSE
  /\ Commit(notifyAllComponents(World, FALSE))
  /\ warnLog' = << >>
  /\ UNCHANGED <<outerVars, options, globalCleanup, registrations,
                 pointerHandlers, inDocument>>

\* Batches of entries (isIntersecting of each) one callback delivers.
IntersectionEntryChoices ==
  { <<TRUE>>, <<FALSE>>, <<TRUE, FALSE>>, <<FALSE, TRUE>> }

\* Variant: the callback takes entry.isIntersecting alone.
RECURSIVE intersectionEntries_IgnoresGlobal(_, _, _)
intersectionEntries_IgnoresGlobal(w, componentKey, entries) ==
  IF entries = << >> THEN w
  ELSE intersectionEntries_IgnoresGlobal(
         setComponentFocus(w, componentKey, Head(entries)),
         componentKey, Tail(entries))

\* entries.forEach(entry => setComponentFocus(key, entry.isIntersecting && global))
RECURSIVE intersectionEntries(_, _, _)
intersectionEntries(w, componentKey, entries) ==
  IF entries = << >> THEN w
  ELSE intersectionEntries(
         setComponentFocus(w, componentKey, Head(entries) /\ globalFocused),
         componentKey, Tail(entries))

\* The callback of the intersection observer created by registration id.
IntersectionCallback(id, entries) ==
  /\ id \in connectedIO
  /\ lastOp' = [op |-> "intersection", key |-> registrations[id].key]
  /\ Commit(intersectionEntries(World, registrations[id].key, entries))
  /\ warnLog' = << >>
  /\ UNCHANGED <<outerVars, options, globalFocused, globalCleanup, registrations,
                 pointerHandlers, inDocument>>

\* The callback of the mutation observer created by registration id, run
\* with queued records that hold a removal.
MutationCallback(id) ==
  /\ id \in pendingMutations
  /\ lastOp' = [op |-> "mutation", key |-> registrations[id].key]
  /\ LET w1 == [World EXCEPT !.pendingMutations = @ \ {id}]
     IN  IF registrations[id].element \notin inDocument
           THEN Commit(unregisterComponent(w1, registrations[id].key))
           ELSE Commit(w1)
  /\ warnLog' = << >>
  /\ UNCHANGED <<outerVars, options, globalFocused, globalCleanup, registrations,
                 pointerHandlers, inDocument>>

\* The registrations whose mouse handlers are attached to element, in the
\* order they were attached.
RECURSIVE Ascending(_)
Ascending(ids) ==
  IF ids = {} THEN << >>
  ELSE LET least == CHOOSE i \in ids : \A j \in ids : i <= j
       IN  <<least>> \o Ascending(ids \ {least})

HandlersOn(element) ==
  Ascending({id \in pointerHandlers : registrations[id].element = element})

\* Variant: handleMouseEnter does not look at the global flag.
RECURSIVE mouseEnterEach_IgnoresGlobal(_, _)
mouseEnterEach_IgnoresGlobal(w, ids) ==
  IF ids = << >> THEN w
  ELSE mouseEnterEach_IgnoresGlobal(
         setComponentFocus(w, registrations[Head(ids)].key, TRUE),
         Tail(ids))

RECURSIVE mouseEnterEach(_, _)
mouseEnterEach(w, ids) ==
  IF ids = << >> THEN w
  ELSE mouseEnterEach(
         IF globalFocused
           THEN setComponentFocus(w, registrations[Head(ids)].key, TRUE)
           ELSE w,
         Tail(ids))

RECURSIVE mouseLeaveEach(_, _, _)
mouseLeaveEach(w, ids, isInViewport) ==
  IF ids = << >> THEN w
  ELSE mouseLeaveEach(
         IF ~isInViewport
           THEN setComponentFocus(w, registrations[Head(ids)].key, FALSE)
           ELSE w,
         Tail(ids), isInViewport)

\* A mouseenter event on element runs every handleMouseEnter attached to it.
HandleMouseEnter(element) ==
  /\ HandlersOn(element) # << >>
  /\ lastOp' = [op |-> "mouseenter", element |-> element]
  /\ Commit(mouseEnterEach(World, HandlersOn(element)))
  /\ warnLog' = << >>
  /\ UNCHANGED <<outerVars, options, globalFocused, globalCleanup, registrations,
                 pointerHandlers, inDocument>>

\* A mouseleave event on element; isInViewport is what the element's
\* bounding rectangle gives against the window at that moment.
HandleMouseLeave(element, isInViewport) ==
  /\ HandlersOn(element) # << >>
  /\ lastOp' = [op |-> "mouseleave", element |-> element,
                isInViewport |-> isInViewport]
  /\ Commit(mouseLeaveEach(World, HandlersOn(element), isInViewport))
  /\ warnLog' = << >>
  /\ UNCHANGED <<outerVars, options, globalFocused, globalCleanup, registrations,
                 pointerHandlers, inDocument>>

(***************************************************************************)
(* The document: elements are children of the body or detached.            *)
(***************************************************************************)
\* Removing a child of the body queues a removal record for every mutation
\* observer connected to the body.
RemoveElement(element) ==
  /\ element \in inDocument
  /\ lastOp' = [op |-> "removeChild", element |-> element]
  /\ inDocument' = inDocument \ {element}
  /\ Commit([World EXCEPT !.pendingMutations = connectedMO])
  /\ warnLog' = << >>
  /\ UNCHANGED <<outerVars, options, globalFocused, globalCleanup, registrations,
                 pointerHandlers>>

AppendElement(element) ==
  /\ element \notin inDocument
  /\ lastOp' = [op |-> "appendChild", element |-> element]
  /\ inDocument' = inDocument \cup {element}
  /\ Commit(World)
  /\ warnLog' = << >>
  /\ UNCHANGED <<outerVars, options, globalFocused, globalCleanup, registrations,
                 pointerHandlers>>

(***************************************************************************)
(* Lifecycle specification: two keys, one listener, the default            *)
(* configuration; every method and host callback but the document's        *)
(* structure and the option updates.                                       *)
(***************************************************************************)
Next ==
  \/ \E r \in RegistrationChoices, c \in Clients \cup {NoClient} :
       RegisterComponent(r[1], r[2], c, EmptyObject)
  \/ \E k \in Keys, c \in Clients \cup {NoClient} :
       RegisterComponent(k, NoElement, c, EmptyObject)
  \/ \E k \in Keys : UnregisterComponent(k)
  \/ \E id \in 1..MaxRegs : Teardown(id)
  \/ \E k \in Keys, v \in BOOLEAN : SetComponentFocus(k, v)
  \/ \E k \in Keys : FocusComponent(k)
  \/ \E k \in Keys : BlurComponent(k)
  \/ BlurAllComponents
  \/ \E k \in Keys : SubscribeToComponent(k, "l1")
  \/ \E id \in 1..MaxRegs : Unsubscribe(id, "l1")
  \/ \E k \in Keys, c \in Clients : UpdateComponentQueryClient(k, c)
  \/ Destroy
  \/ \E s \in {"visible", "hidden"} : HandleVisibilityChange(s)
  \/ HandleWindowFocus
  \/ HandleWindowBlur
  \/ \E id \in 1..MaxRegs, entries \in IntersectionEntryChoices :
       IntersectionCallback(id, entries)
  \/ \E e \in Elements : HandleMouseEnter(e)
  \/ \E e \in Elements, v \in BOOLEAN : HandleMouseLeave(e, v)

Spec == Init /\ [][Next]_vars

(***************************************************************************)
(* Policy specification: one key under every constructor and component     *)
(* configuration.                                                          *)
(***************************************************************************)
InitPolicy ==
  /\ options \in {Spread(DefaultOptions, o) : o \in ConstructorChoices}
  /\ components = NoEntries
  /\ componentOrder = << >>
  /\ globalFocused = TRUE
  /\ intersectionObservers = NoEntries
  /\ mutationObservers = NoEntries
  /\ globalCleanup = TRUE
  /\ registrations = << >>
  /\ connectedIO = {}
  /\ connectedMO = {}
  /\ pendingMutations = {}
  /\ pointerHandlers = {}
  /\ inDocument = Elements
  /\ browser = TRUE
  /\ thrown = << >>
  /\ focusLog = << >>
  /\ notifyLog = << >>
  /\ dispatchLog = << >>
  /\ callLog = << >>
  /\ warnLog = << >>
  /\ lastOp = [op |-> "constructor"]
  /\ InitPersist
  /\ InitHook
  /\ InitGroup

NextPolicy ==
  \/ \E c \in Clients \cup {NoClient}, o \in AllOptions :
       /\ components = NoEntries
       /\ RegisterComponent("a", "e1", c, o)
  \/ \E v \in BOOLEAN : SetComponentFocus("a", v)
  \/ \E o \in UpdateChoices : UpdateComponentOptions("a", o)

SpecPolicy == InitPolicy /\ [][NextPolicy]_vars

(***************************************************************************)
(* Listener specification: one key, two listeners.                         *)
(***************************************************************************)
NextListeners ==
  \/ \E e \in Elements, c \in Clients \cup {NoClient} :
       RegisterComponent("a", e, c, EmptyObject)
  \/ UnregisterComponent("a")
  \/ \E id \in 1..MaxRegs : Teardown(id)
  \/ \E v \in BOOLEAN : SetComponentFocus("a", v)
  \/ BlurAllComponents
  \/ \E l \in Listeners : SubscribeToComponent("a", l)
  \/ \E id \in 1..MaxRegs, l \in Listeners : Unsubscribe(id, l)
  \/ \E s \in {"visible", "hidden"} : HandleVisibilityChange(s)
  \/ HandleWindowFocus
  \/ HandleWindowBlur
  \/ \E id \in 1..MaxRegs, entries \in IntersectionEntryChoices :
       IntersectionCallback(id, entries)
  \/ \E e \in Elements : HandleMouseEnter(e)
  \/ \E e \in Elements, v \in BOOLEAN : HandleMouseLeave(e, v)

SpecListeners == Init /\ [][NextListeners]_vars

(***************************************************************************)
(* Document specification: elements leave and rejoin the body while the    *)
(* mutation observers of the registrations watch it.                       *)
(***************************************************************************)
NextDocument ==
  \/ \E r \in RegistrationChoices :
       RegisterComponent(r[1], r[2], NoClient, EmptyObject)
  \/ \E k \in Keys : UnregisterComponent(k)
  \/ \E id \in 1..MaxRegs : Teardown(id)
  \/ \E k \in Keys : SetComponentFocus(k, TRUE)
  \/ \E k \in Keys : SubscribeToComponent(k, "l1")
  \/ \E id \in 1..MaxRegs : MutationCallback(id)
  \/ \E e \in Elements : RemoveElement(e)
  \/ \E e \in Elements : AppendElement(e)
  \/ \E id \in 1..MaxRegs : IntersectionCallback(id, << FALSE >>)
  \/ Destroy

SpecDocument == Init /\ [][NextDocument]_vars

(***************************************************************************)
(* QueryClient specification: one record whose QueryClient is replaced.    *)
(***************************************************************************)
\* The QueryClients updateComponentQueryClient is called with: the one of
\* the registrations and a second one.
Handles == Clients \cup {"q2"}

NextClients ==
  \/ \E e \in Elements, c \in Clients \cup {NoClient} :
       RegisterComponent("a", e, c, EmptyObject)
  \/ UnregisterComponent("a")
  \/ \E k \in Keys, h \in Handles : UpdateComponentQueryClient(k, h)
  \/ \E v \in BOOLEAN : SetComponentFocus("a", v)
  \/ SubscribeToComponent("a", "l1")
  \/ \E id \in 1..MaxRegs, entries \in IntersectionEntryChoices :
       IntersectionCallback(id, entries)
  \/ \E e \in Elements : HandleMouseEnter(e)

SpecClients == Init /\ [][NextClients]_vars

(***************************************************************************)
(* Options specification: one key registered, and registered again, with   *)
(* options that updateComponentOptions then overrides.                     *)
(***************************************************************************)
\* Options passed to registerComponent in the options specification.
RegisterOptionChoices ==
  { EmptyObject,
    [invalidateOnFocus |-> False, forceRefetch |-> Undefined],
    [resetOnFocus |-> True, queryFilters |-> [queryKey |-> "todos"]] }

NextOptions ==
  \/ \E c \in Clients \cup {NoClient}, o \in RegisterOptionChoices :
       RegisterComponent("a", "e1", c, o)
  \/ UnregisterComponent("a")
  \/ \E k \in Keys, o \in UpdateChoices : UpdateComponentOptions(k, o)
  \/ \E v \in BOOLEAN : SetComponentFocus("a", v)
  \/ \E e \in Elements : HandleMouseEnter(e)

SpecOptions == InitPolicy /\ [][NextOptions]_vars

(***************************************************************************)
(* Server specification: a manager constructed where window, document and  *)
(* the observer classes do not exist.  setupGlobalFocusListener returned   *)
(* null, so no global listener is attached and #globalCleanup is null.     *)
(***************************************************************************)
InitServer ==
  /\ options = Spread(DefaultOptions, EmptyObject)
  /\ components = NoEntries
  /\ componentOrder = << >>
  /\ globalFocused = TRUE
  /\ intersectionObservers = NoEntries
  /\ mutationObservers = NoEntries
  /\ globalCleanup = FALSE
  /\ registrations = << >>
  /\ connectedIO = {}
  /\ connectedMO = {}
  /\ pendingMutations = {}
  /\ pointerHandlers = {}
  /\ inDocument = {}
  /\ browser = FALSE
  /\ thrown = << >>
  /\ focusLog = << >>
  /\ notifyLog = << >>
  /\ dispatchLog = << >>
  /\ callLog = << >>
  /\ warnLog = << >>
  /\ lastOp = [op |-> "constructor"]
  /\ InitPersist
  /\ InitHook
  /\ InitGroup

NextServer ==
  \/ \E k \in Keys, e \in Elements, c \in Clients \cup {NoClient} :
       RegisterComponent(k, e, c, EmptyObject)
  \/ \E k \in Keys : RegisterComponent(k, NoElement, NoClient, EmptyObject)
  \/ \E k \in Keys : UnregisterComponent(k)
  \/ \E k \in Keys, v \in BOOLEAN : SetComponentFocus(k, v)
  \/ BlurAllComponents
  \/ \E k \in Keys : SubscribeToComponent(k, "l1")
  \/ Destroy

SpecServer == InitServer /\ [][NextServer]_vars

(***************************************************************************)
(* Persistence: persistQueryClientSubscribe, persistQueryClientSave and    *)
(* persistQueryClientRestore.  The query cache and the mutation cache are  *)
(* external; what is modelled is which of their events reach the persister.*)
(***************************************************************************)
MaxSubscriptions == 2
MaxEvents == 3

\* The event types of the two caches (NotifyEventType of the cache engine).
NotifyEventTypes ==
  {"added", "removed", "updated", "observerAdded", "observerRemoved",
   "observerResultsUpdated", "observerOptionsUpdated"}

Caches == {"queryCache", "mutationCache"}

cacheEventTypes == {"added", "removed", "updated"}

isCacheEventType_AnyType(eventType) == eventType \in NotifyEventTypes

isCacheEventType(eventType) == eventType \in cacheEventTypes

\* persistQueryClientSave: the state is dehydrated and handed to the
\* persister before the function first suspends.
persistQueryClientSave(subscription) ==
  << [call |-> "dehydrate", subscription |-> subscription],
     [call |-> "persistClient", subscription |-> subscription] >>

\* One cache tells its listeners, in subscription order, about an event.
RECURSIVE notifyEach(_, _, _, _)
notifyEach(subscriptions, i, cache, eventType) ==
  IF i > Len(subscriptions) THEN << >>
  ELSE (IF subscriptions[i][cache] /\ isCacheEventType(eventType)
        THEN persistQueryClientSave(i) ELSE << >>)
       \o notifyEach(subscriptions, i + 1, cache, eventType)

SavesIn(log) ==
  Cardinality({i \in 1..Len(log) : log[i].call = "persistClient"})

managerLogs == <<focusLog, notifyLog, dispatchLog, callLog, warnLog, thrown>>

PersistQueryClientSubscribe ==
  /\ Len(cacheSubscriptions) < MaxSubscriptions
  /\ cacheSubscriptions' =
       Append(cacheSubscriptions, [queryCache |-> TRUE, mutationCache |-> TRUE])
  /\ persistLog' = << >>
  /\ lastOp' = [op |-> "persistQueryClientSubscribe"]
  /\ UNCHANGED <<eventsEmitted, saveCount, persistence, managerVars, hostVars,
                 managerLogs, hookVars, groupVars>>

\* The function persistQueryClientSubscribe returned.
PersistQueryClientUnsubscribe(i) ==
  /\ i \in 1..Len(cacheSubscriptions)
  /\ cacheSubscriptions' =
       [cacheSubscriptions EXCEPT ![i] =
          [queryCache |-> FALSE, mutationCache |-> FALSE]]
  /\ persistLog' = << >>
  /\ lastOp' = [op |-> "persistQueryClientUnsubscribe", subscription |-> i]
  /\ UNCHANGED <<eventsEmitted, saveCount, persistence, managerVars, hostVars,
                 managerLogs, hookVars, groupVars>>

CacheEvent(cache, eventType) ==
  /\ eventsEmitted < MaxEvents
  /\ persistLog' = notifyEach(cacheSubscriptions, 1, cache, eventType)
  /\ eventsEmitted' = eventsEmitted + 1
  /\ saveCount' = saveCount + SavesIn(persistLog')
  /\ lastOp' = [op |-> "cacheEvent", cache |-> cache, type |-> eventType]
  /\ UNCHANGED <<cacheSubscriptions, persistence, managerVars, hostVars,
                 managerLogs, hookVars, groupVars>>

\* What persister.restoreClient can do: throw, resolve to nothing, or
\* resolve to a stored client (timestamp 0 is a missing timestamp).
RestoreKinds == {"throws", "undefined", "client"}
Timestamps == 0..2
Busters == {"", "v2"}
Clocks == {3, 4}
MaxAges == {1, 2}

persistQueryClientRestore(kind, timestamp, clientBuster, now, maxAge, buster, production) ==
  IF kind = "throws"
  THEN << [call |-> "restoreClient"] >>
       \o (IF production THEN << >>
           ELSE << [call |-> "console.error"], [call |-> "console.warn"] >>)
       \o << [call |-> "removeClient"], [call |-> "throw"] >>
  ELSE IF kind = "undefined"
  THEN << [call |-> "restoreClient"] >>
  ELSE IF timestamp # 0
  THEN LET expired == now - timestamp > maxAge
           busted == clientBuster # buster
       IN  IF expired \/ busted
           THEN << [call |-> "restoreClient"], [call |-> "removeClient"] >>
           ELSE << [call |-> "restoreClient"], [call |-> "hydrate"] >>
  ELSE << [call |-> "restoreClient"], [call |-> "removeClient"] >>

PersistQueryClientRestore(kind, timestamp, clientBuster, now, maxAge, buster, production) ==
  /\ persistLog' = persistQueryClientRestore(kind, timestamp, clientBuster,
                                             now, maxAge, buster, production)
  /\ lastOp' = [op |-> "persistQueryClientRestore", restored |-> kind,
                timestamp |-> timestamp, clientBuster |-> clientBuster,
                now |-> now, maxAge |-> maxAge, buster |-> buster]
  /\ UNCHANGED <<cacheSubscriptions, eventsEmitted, saveCount, persistence,
                 managerVars, hostVars, managerLogs, hookVars, groupVars>>

\* Variant: the subscription is made whether unsubscribe was called or not.
RestoreSettles_SubscribesAnyway(kind, timestamp, clientBuster, now, maxAge, buster, production) ==
  /\ persistence.restore = "pending"
  /\ persistLog' = Tail(persistQueryClientRestore(kind, timestamp, clientBuster,
                                                  now, maxAge, buster, production))
  /\ lastOp' = [op |-> "restoreSettles", restored |-> kind]
  /\ IF kind = "throws"
       THEN /\ persistence' = [persistence EXCEPT !.restore = "rejected"]
            /\ UNCHANGED cacheSubscriptions
       ELSE /\ cacheSubscriptions' =
                 Append(cacheSubscriptions,
                        [queryCache |-> TRUE, mutationCache |-> TRUE])
            /\ persistence' =
                 [persistence EXCEPT
                    !.restore = "resolved",
                    !.persistQueryClientUnsubscribe = Len(cacheSubscriptions')]
  /\ UNCHANGED <<eventsEmitted, saveCount, managerVars, hostVars, managerLogs,
                 hookVars, groupVars>>

\* persistQueryClient(props): the restore is started (it runs up to its call
\* of persister.restoreClient) and [unsubscribe, restorePromise] is returned.
PersistQueryClient ==
  /\ persistence.restore = "none"
  /\ persistence' = [persistence EXCEPT !.restore = "pending"]
  /\ persistLog' = << [call |-> "restoreClient"] >>
  /\ lastOp' = [op |-> "persistQueryClient"]
  /\ UNCHANGED <<cacheSubscriptions, eventsEmitted, saveCount, managerVars,
                 hostVars, managerLogs, hookVars, groupVars>>

\* persister.restoreClient settles: the rest of persistQueryClientRestore
\* runs, and when it has resolved, the callback chained to it.
RestoreSettles(kind, timestamp, clientBuster, now, maxAge, buster, production) ==
  /\ persistence.restore = "pending"
  /\ persistLog' = Tail(persistQueryClientRestore(kind, timestamp, clientBuster,
                                                  now, maxAge, buster, production))
  /\ lastOp' = [op |-> "restoreSettles", restored |-> kind]
  /\ IF kind = "throws"
       THEN /\ persistence' = [persistence EXCEPT !.restore = "rejected"]
            /\ UNCHANGED cacheSubscriptions
       ELSE IF persistence.hasUnsubscribed
       THEN /\ persistence' = [persistence EXCEPT !.restore = "resolved"]
            /\ UNCHANGED cacheSubscriptions
       ELSE /\ cacheSubscriptions' =
                 Append(cacheSubscriptions,
                        [queryCache |-> TRUE, mutationCache |-> TRUE])
            /\ persistence' =
                 [persistence EXCEPT
                    !.restore = "resolved",
                    !.persistQueryClientUnsubscribe = Len(cacheSubscriptions')]
  /\ UNCHANGED <<eventsEmitted, saveCount, managerVars, hostVars, managerLogs,
                 hookVars, groupVars>>

\* The unsubscribe persistQueryClient returned.
PersistenceUnsubscribe ==
  /\ persistence.restore # "none"
  /\ persistence' = [persistence EXCEPT !.hasUnsubscribed = TRUE]
  /\ cacheSubscriptions' =
       IF persistence.persistQueryClientUnsubscribe = 0
         THEN cacheSubscriptions
         ELSE [cacheSubscriptions EXCEPT
                 ![persistence.persistQueryClientUnsubscribe] =
                   [queryCache |-> FALSE, mutationCache |-> FALSE]]
  /\ persistLog' = << >>
  /\ lastOp' = [op |-> "unsubscribe"]
  /\ UNCHANGED <<eventsEmitted, saveCount, managerVars, hostVars, managerLogs,
                 hookVars, groupVars>>

NextPersistence ==
  \/ PersistQueryClient
  \/ \E kind \in RestoreKinds, timestamp \in Timestamps,
        clientBuster \in Busters, now \in Clocks, maxAge \in MaxAges,
        buster \in Busters, production \in BOOLEAN :
       RestoreSettles(kind, timestamp, clientBuster, now, maxAge, buster,
                      production)
  \/ PersistenceUnsubscribe
  \/ \E cache \in Caches, eventType \in NotifyEventTypes :
       CacheEvent(cache, eventType)

SpecPersistence == Init /\ [][NextPersistence]_vars

NextPersist ==
  \/ PersistQueryClientSubscribe
  \/ \E i \in 1..MaxSubscriptions : PersistQueryClientUnsubscribe(i)
  \/ \E cache \in Caches, eventType \in NotifyEventTypes :
       CacheEvent(cache, eventType)
  \/ \E kind \in RestoreKinds, timestamp \in Timestamps,
        clientBuster \in Busters, now \in Clocks, maxAge \in MaxAges,
        buster \in Busters, production \in BOOLEAN :
       PersistQueryClientRestore(kind, timestamp, clientBuster, now, maxAge,
                                 buster, production)

SpecPersist == Init /\ [][NextPersist]_vars

(***************************************************************************)
(* useComponentFocus and AutoFocus.  A render runs the cleanups of the     *)
(* effects whose dependencies changed and then those effects; each effect  *)
(* makes its manager calls one after the other, so the manager is threaded *)
(* through them as a value.                                                *)
(***************************************************************************)
Manager ==
  [w |-> World, registrations |-> registrations,
   pointerHandlers |-> pointerHandlers, warnLog |-> << >>]

CommitManager(m) ==
  /\ Commit(m.w)
  /\ registrations' = m.registrations
  /\ pointerHandlers' = m.pointerHandlers
  /\ warnLog' = m.warnLog

\* registerComponent(componentKey, element, queryClient) in a browser.
registerComponent(m, componentKey, element, queryClient) ==
  IF element = NoElement
    THEN [m EXCEPT !.warnLog = Append(@, "Element not found for component")]
    ELSE LET id == Len(m.registrations) + 1
             w1 == unregisterComponent(m.w, componentKey)
             hasParent == element \in inDocument
         IN  [m EXCEPT
               !.w = [w1 EXCEPT
                        !.components = Put(@, componentKey,
                           NewComponentState(id, queryClient, EmptyObject)),
                        !.componentOrder = Append(@, componentKey),
                        !.intersectionObservers = Put(@, componentKey, id),
                        !.connectedIO = @ \cup {id},
                        !.mutationObservers =
                           IF hasParent THEN Put(@, componentKey, id) ELSE @,
                        !.connectedMO = IF hasParent THEN @ \cup {id} ELSE @],
               !.registrations = Append(@, [key |-> componentKey,
                                            element |-> element]),
               !.pointerHandlers = @ \cup {id}]

subscribeToComponent(m, componentKey, listener) ==
  IF componentKey \notin DOMAIN m.w.components
    THEN [m EXCEPT !.warnLog = Append(@, "is not registered")]
    ELSE LET focused == m.w.components[componentKey].focused
         IN  [m EXCEPT
               !.w.components[componentKey].listeners = AddLast(@, listener),
               !.w.notifyLog = Append(@, [key |-> componentKey,
                                          listener |-> listener,
                                          focused |-> focused]),
               !.w.callLog = @ \o ListenerCalls(componentKey, << listener >>,
                                                focused)]

\* The closure subscribeToComponent returned for the record of registration id.
unsubscribe(m, id, listener) ==
  [m EXCEPT !.w.components =
     [k \in DOMAIN m.w.components |->
        IF m.w.components[k].id = id
          THEN [m.w.components[k] EXCEPT !.listeners = Without(@, listener)]
          ELSE m.w.components[k]]]

\* The closure the id-th registerComponent call returned.
teardown(m, id) ==
  [m EXCEPT !.w = unregisterComponent(@, m.registrations[id].key),
            !.pointerHandlers = @ \ {id}]

updateComponentOptions(m, componentKey, newOptions) ==
  IF componentKey \notin DOMAIN m.w.components
    THEN m
    ELSE [m EXCEPT !.w.components[componentKey].options = Spread(@, newOptions)]

\* The listener and the QueryClient of the one hook instance.
HookListener == "l1"
HookClient == "q1"

\* The options object the hook passes on, with the hook's defaults.
HookOptions(props) ==
  [invalidateOnFocus |-> props.invalidateOnFocus, refetchOnFocus |-> True,
   resetOnFocus |-> False, forceRefetch |-> True, queryFilters |-> EmptyObject]

\* The hook's listener is setIsFocused: isFocused after the listener calls of
\* a step, given what it was before.
Received(log, current) ==
  LET mine == SelectSeq(log, LAMBDA x : x.listener = HookListener)
  IN  IF mine = << >> THEN current ELSE mine[Len(mine)].focused

\* The dependency lists of the effects and of the focus callback.
RegistrationDeps(props) ==
  <<props.componentKey, props.onFocusChange, props.enabled>>
OptionsDeps(props) ==
  <<props.componentKey, props.enabled, props.invalidateOnFocus>>
FocusDeps(props) == <<props.componentKey, props.enabled>>
TimerDeps(props) == <<props.autoFocus, props.autoFocusDelay, FocusDeps(props)>>

\* Variant: the registration effect registers whether enabled or not.
RegistrationEffect_IgnoresEnabled(m, props) ==
  LET m1 == registerComponent(m, props.componentKey, props.element, HookClient)
      m2 == subscribeToComponent(m1, props.componentKey, HookListener)
  IN  [m |-> m2,
       cleanup |->
         << [teardown |-> IF props.element # NoElement
                            THEN Len(m1.registrations) ELSE 0,
             listenerOn |-> IF props.componentKey \in DOMAIN m1.w.components
                              THEN m1.w.components[props.componentKey].id
                              ELSE 0] >>,
       log |-> << "registerComponent", "subscribeToComponent" >>]

\* The registration effect: the manager after it, the closures its cleanup
\* will call (0: the empty function returned for a refused call) and the
\* calls made.
RegistrationEffect(m, props) ==
  IF ~props.enabled
    THEN [m |-> m, cleanup |-> << >>, log |-> << >>]
    ELSE LET m1 == registerComponent(m, props.componentKey, props.element,
                                     HookClient)
             m2 == subscribeToComponent(m1, props.componentKey, HookListener)
         IN  [m |-> m2,
              cleanup |->
                << [teardown |-> IF props.element # NoElement
                                   THEN Len(m1.registrations) ELSE 0,
                    listenerOn |->
                      IF props.componentKey \in DOMAIN m1.w.components
                        THEN m1.w.components[props.componentKey].id
                        ELSE 0] >>,
              log |-> << "registerComponent", "subscribeToComponent" >>]

\* The cleanup of the registration effect: unsubscribe(), then unregister().
RegistrationCleanup(m, cleanup) ==
  IF cleanup = << >>
    THEN [m |-> m, log |-> << >>]
    ELSE LET c == cleanup[1]
             m1 == IF c.listenerOn # 0
                     THEN unsubscribe(m, c.listenerOn, HookListener) ELSE m
         IN  [m |-> IF c.teardown # 0 THEN teardown(m1, c.teardown) ELSE m1,
              log |-> << "unsubscribe", "unregister" >>]

OptionsEffect(m, props) ==
  IF ~props.enabled
    THEN [m |-> m, log |-> << >>]
    ELSE [m |-> updateComponentOptions(m, props.componentKey, HookOptions(props)),
          log |-> << "updateComponentOptions" >>]

\* Variant: the timeout is left pending.
AutoFocusEffectCleanup_KeepsTimer(pending) == pending

\* clearTimeout(timer)
AutoFocusEffectCleanup(pending) == << >>

\* setTimeout(() => focus(), autoFocusDelay), focus being the callback of
\* this render (it holds the render's componentKey and enabled).
AutoFocusEffect(props) ==
  IF ~props.autoFocus
    THEN << >>
    ELSE << [delay |-> props.autoFocusDelay, elapsed |-> 0,
             enabled |-> props.enabled, key |-> props.componentKey] >>

\* setFocus(focused) of a render with the given enabled and componentKey.
setFocus(m, enabled, componentKey, focused) ==
  IF ~enabled
    THEN [m |-> m, log |-> << >>]
    ELSE [m |-> [m EXCEPT !.w = setComponentFocus(@, componentKey, focused)],
          log |-> << IF focused THEN "focusComponent" ELSE "blurComponent" >>]

\* The component is rendered with props (mounted, or rendered again with
\* other props) and React commits the render.
Render(props) ==
  /\ browser
  /\ hook.mounted => props # hook.props
  /\ LET first == ~hook.mounted
         registrationChanged ==
           first \/ RegistrationDeps(props) # RegistrationDeps(hook.props)
         optionsChanged ==
           first \/ OptionsDeps(props) # OptionsDeps(hook.props)
         timerChanged == first \/ TimerDeps(props) # TimerDeps(hook.props)
         cleaned == IF registrationChanged
                      THEN RegistrationCleanup(Manager, hookEffect)
                      ELSE [m |-> Manager, log |-> << >>]
         registered == IF registrationChanged
                         THEN RegistrationEffect(cleaned.m, props)
                         ELSE [m |-> cleaned.m, cleanup |-> hookEffect,
                               log |-> << >>]
         updated == IF optionsChanged
                      THEN OptionsEffect(registered.m, props)
                      ELSE [m |-> registered.m, log |-> << >>]
     IN  /\ Len(registered.m.registrations) <= MaxRegs
         /\ CommitManager(updated.m)
         /\ hookEffect' = registered.cleanup
         /\ hookLog' = cleaned.log \o registered.log \o updated.log
         /\ isFocused' = Received(updated.m.w.notifyLog,
                                  IF first THEN FALSE ELSE isFocused)
         /\ timer' = IF ~timerChanged THEN timer
                     ELSE IF AutoFocusEffect(props) # << >>
                     THEN AutoFocusEffect(props)
                     ELSE AutoFocusEffectCleanup(timer)
  /\ hook' = [mounted |-> TRUE, props |-> props]
  /\ lastOp' = [op |-> "render"]
  /\ UNCHANGED <<options, globalFocused, globalCleanup, inDocument, persistVars, groupVars>>

\* The component is removed: every effect is cleaned up.
Unmount ==
  /\ hook.mounted
  /\ LET cleaned == RegistrationCleanup(Manager, hookEffect)
     IN  /\ CommitManager(cleaned.m)
         /\ hookLog' = cleaned.log
  /\ isFocused' = FALSE
  /\ hookEffect' = << >>
  /\ timer' = AutoFocusEffectCleanup(timer)
  /\ hook' = [hook EXCEPT !.mounted = FALSE]
  /\ lastOp' = [op |-> "unmount"]
  /\ UNCHANGED <<options, globalFocused, globalCleanup, inDocument, persistVars, groupVars>>

\* One unit of time passes while the timeout is not yet due.
Tick ==
  /\ timer # << >>
  /\ timer[1].elapsed < timer[1].delay
  /\ timer' = << [timer[1] EXCEPT !.elapsed = @ + 1] >>
  /\ CommitManager(Manager)
  /\ hookLog' = << >>
  /\ lastOp' = [op |-> "tick"]
  /\ UNCHANGED <<hook, hookEffect, isFocused, options, globalFocused,
                 globalCleanup, inDocument, persistVars, groupVars>>

\* The timeout is due: its callback calls the focus() it was created with.
TimerFires ==
  /\ timer # << >>
  /\ timer[1].elapsed = timer[1].delay
  /\ LET called == setFocus(Manager, timer[1].enabled, timer[1].key, TRUE)
     IN  /\ CommitManager(called.m)
         /\ hookLog' = called.log
         /\ isFocused' = Received(called.m.w.notifyLog, isFocused)
  /\ timer' = << >>
  /\ lastOp' = [op |-> "autoFocusTimer"]
  /\ UNCHANGED <<hook, hookEffect, options, globalFocused, globalCleanup,
                 inDocument, persistVars, groupVars>>

\* The caller uses setFocus (focus() and blur() are setFocus(true) and
\* setFocus(false)) of the current render.
CallSetFocus(focused) ==
  /\ hook.mounted
  /\ LET called == setFocus(Manager, hook.props.enabled,
                            hook.props.componentKey, focused)
     IN  /\ CommitManager(called.m)
         /\ hookLog' = called.log
         /\ isFocused' = Received(called.m.w.notifyLog, isFocused)
  /\ lastOp' = [op |-> "setFocus", focused |-> focused]
  /\ UNCHANGED <<hook, hookEffect, timer, options, globalFocused,
                 globalCleanup, inDocument, persistVars, groupVars>>

NextHook ==
  \/ \E props \in HookProps : Render(props)
  \/ Unmount
  \/ Tick
  \/ TimerFires
  \/ \E focused \in BOOLEAN : CallSetFocus(focused)

SpecHook == Init /\ [][NextHook]_vars

(***************************************************************************)
(* Removal specification: one hook without a timer, and another caller of  *)
(* the same manager that registers, unregisters, tears down and destroys.  *)
(***************************************************************************)
\* The hook is rendered for key "a" on element "e1", enabled or not.
PlainProps ==
  {props \in HookProps :
     /\ props.componentKey = "a"
     /\ props.element = "e1"
     /\ ~props.autoFocus
     /\ props.autoFocusDelay = 0
     /\ props.invalidateOnFocus = True}

\* What the other caller registers: either key, on the other element.
OtherOptionChoices == {EmptyObject, [resetOnFocus |-> True]}

NextRemoval ==
  \/ \E props \in PlainProps : Render(props)
  \/ Unmount
  \/ \E focused \in BOOLEAN : CallSetFocus(focused)
  \/ \E k \in Keys, c \in Clients \cup {NoClient}, o \in OtherOptionChoices :
       RegisterComponent(k, "e2", c, o)
  \/ \E k \in Keys : UnregisterComponent(k)
  \/ \E id \in 1..MaxRegs : Teardown(id)
  \/ Destroy

SpecRemoval == Init /\ [][NextRemoval]_vars

(***************************************************************************)
(* Pointer specification: key "a" registered on either element, removed in *)
(* every way there is, with mouse events on both elements.                 *)
(***************************************************************************)
NextPointer ==
  \/ \E e \in Elements : RegisterComponent("a", e, "q1", EmptyObject)
  \/ UnregisterComponent("a")
  \/ \E id \in 1..MaxRegs : Teardown(id)
  \/ Destroy
  \/ SubscribeToComponent("a", "l1")
  \/ BlurComponent("a")
  \/ \E e \in Elements : RemoveElement(e)
  \/ \E id \in 1..MaxRegs : MutationCallback(id)
  \/ HandleWindowFocus
  \/ HandleWindowBlur
  \/ \E e \in Elements : HandleMouseEnter(e)
  \/ \E e \in Elements, v \in BOOLEAN : HandleMouseLeave(e, v)

SpecPointer == Init /\ [][NextPointer]_vars

(***************************************************************************)
(* Re-render specification: one hook that stays enabled on key "a", is     *)
(* rendered again with other flags, another timer or a new onFocusChange   *)
(* function, and gains focus through focus() and the timer.                *)
(***************************************************************************)
RerenderProps ==
  [componentKey : {"a"}, enabled : {TRUE}, element : {"e1"},
   invalidateOnFocus : {True, False}, autoFocus : BOOLEAN,
   autoFocusDelay : 0..MaxDelay, onFocusChange : {"f1", "f2"}]

NextRerender ==
  \/ \E props \in RerenderProps : Render(props)
  \/ Tick
  \/ TimerFires
  \/ \E focused \in BOOLEAN : CallSetFocus(focused)

SpecRerender == Init /\ [][NextRerender]_vars

(***************************************************************************)
(* useComponentFocusGroup: one group "g" of two components, each attached  *)
(* to its element through the ref callback registerComponent(componentKey) *)
(* returns.  React calls a ref callback with the element when the element  *)
(* is attached, and, when a render passes a callback of another identity,  *)
(* calls the previous callback with null and the new one with the element; *)
(* refs are handled before the effects of the same render run.             *)
(***************************************************************************)
MaxRefs == 6            \* registerComponent calls made by ref callbacks

GroupKey == "g"
GroupComponentKeys == << "w1", "w2" >>

\* `${groupKey}-${componentKey}`
fullComponentKey(groupKey, componentKey) == groupKey \o "-" \o componentKey

\* The element each component of the group renders.
GroupElement(componentKey) == IF componentKey = "w1" THEN "e1" ELSE "e2"

\* The listener the subscription effect creates for a component key.
GroupListener(componentKey) == IF componentKey = "w1" THEN "l1" ELSE "l2"

\* self.indexOf(key)
indexOf(self, key) ==
  IF key \in Range(self)
    THEN CHOOSE i \in 1..Len(self) :
           self[i] = key /\ \A j \in 1..(i - 1) : self[j] # key
    ELSE 0

\* self.filter((key, index, self) => self.indexOf(key) === index)
RECURSIVE firstOccurrences(_, _)
firstOccurrences(self, index) ==
  IF index > Len(self) THEN << >>
  ELSE (IF indexOf(self, self[index]) = index THEN << self[index] >> ELSE << >>)
         \o firstOccurrences(self, index + 1)

\* The updater the group's listener hands to setFocusedComponentKeys.
setFocusedComponentKeys(prev, componentKey, focused) ==
  IF focused
    THEN firstOccurrences(Append(prev, componentKey), 1)
    ELSE SelectSeq(prev, LAMBDA key : key # componentKey)

\* The component key whose listener a listener call reached.
ComponentKeyOf(listener) ==
  CHOOSE i \in 1..Len(GroupComponentKeys) :
    GroupListener(GroupComponentKeys[i]) = listener

\* The state after the updaters queued by the listener calls of a step, in
\* call order.
RECURSIVE GroupReceived(_, _)
GroupReceived(log, prev) ==
  IF log = << >> THEN prev
  ELSE GroupReceived(Tail(log),
         setFocusedComponentKeys(prev,
           GroupComponentKeys[ComponentKeyOf(log[1].listener)], log[1].focused))

\* The ref callbacks of the previous render are called with null.
RECURSIVE DetachRefs(_, _)
DetachRefs(m, i) ==
  IF i > Len(GroupComponentKeys) THEN m
  ELSE DetachRefs(
         [m EXCEPT !.w = unregisterComponent(@,
            fullComponentKey(GroupKey, GroupComponentKeys[i]))], i + 1)

\* The ref callbacks of this render are called with their elements.
RECURSIVE AttachRefs(_, _)
AttachRefs(m, i) ==
  IF i > Len(GroupComponentKeys) THEN m
  ELSE AttachRefs(
         registerComponent(m, fullComponentKey(GroupKey, GroupComponentKeys[i]),
                           GroupElement(GroupComponentKeys[i]), HookClient),
         i + 1)

\* The subscription effect: one subscribeToComponent per component key; what
\* it keeps of each is the record its unsubscribe closure holds (0: noop).
RECURSIVE SubscriptionEffect(_, _, _)
SubscriptionEffect(m, unsubscribes, i) ==
  IF i > Len(GroupComponentKeys) THEN [m |-> m, unsubscribes |-> unsubscribes]
  ELSE LET componentKey == GroupComponentKeys[i]
           full == fullComponentKey(GroupKey, componentKey)
           id == IF full \in DOMAIN m.w.components
                   THEN m.w.components[full].id ELSE 0
       IN  SubscriptionEffect(
             subscribeToComponent(m, full, GroupListener(componentKey)),
             Append(unsubscribes, [id |-> id,
                                   listener |-> GroupListener(componentKey)]),
             i + 1)

\* unsubscribes.forEach((fn) => fn())
RECURSIVE SubscriptionCleanup(_, _)
SubscriptionCleanup(m, unsubscribes) ==
  IF unsubscribes = << >> THEN m
  ELSE SubscriptionCleanup(
         unsubscribe(m, unsubscribes[1].id, unsubscribes[1].listener),
         Tail(unsubscribes))

\* componentKeys.forEach(focusComponent) or componentKeys.forEach(blurComponent)
RECURSIVE setEach(_, _, _)
setEach(m, i, focused) ==
  IF i > Len(GroupComponentKeys) THEN m
  ELSE setEach(
         [m EXCEPT !.w = setComponentFocus(@,
            fullComponentKey(GroupKey, GroupComponentKeys[i]), focused)],
         i + 1, focused)

\* The group is rendered (mounted, or rendered again) and React commits the
\* render.  newRefs: the elements are given ref callbacks of a new identity,
\* as ref={registerComponent('widget1')} does in every render; newDeps: a
\* dependency of the subscription effect (the componentKeys array, the
\* onGroupFocusChange callback) has a new identity.
GroupRender(newRefs, newDeps) ==
  /\ browser
  /\ LET first == ~group.mounted
         detached == IF newRefs /\ ~first THEN DetachRefs(Manager, 1) ELSE Manager
         attached == IF newRefs \/ first THEN AttachRefs(detached, 1) ELSE detached
         cleaned == IF newDeps /\ ~first
                      THEN SubscriptionCleanup(attached, group.unsubscribes)
                      ELSE attached
         subscribed == IF newDeps \/ first
                         THEN SubscriptionEffect(cleaned, << >>, 1)
                         ELSE [m |-> cleaned, unsubscribes |-> group.unsubscribes]
     IN  /\ Len(attached.registrations) <= MaxRefs
         /\ CommitManager(subscribed.m)
         /\ focusedComponentKeys' = group.state
         /\ group' = [mounted |-> TRUE,
                      state |-> GroupReceived(subscribed.m.w.notifyLog, group.state),
                      unsubscribes |-> subscribed.unsubscribes]
  /\ lastOp' = [op |-> "groupRender", newRefs |-> newRefs, newDeps |-> newDeps]
  /\ UNCHANGED <<options, globalFocused, globalCleanup, inDocument,
                 persistVars, hookVars>>

\* The group is removed: the refs are called with null and the effect is
\* cleaned up.
GroupUnmount ==
  /\ group.mounted
  /\ CommitManager(SubscriptionCleanup(DetachRefs(Manager, 1), group.unsubscribes))
  /\ group' = [mounted |-> FALSE, state |-> << >>, unsubscribes |-> << >>]
  /\ focusedComponentKeys' = << >>
  /\ lastOp' = [op |-> "groupUnmount"]
  /\ UNCHANGED <<options, globalFocused, globalCleanup, inDocument,
                 persistVars, hookVars>>

\* focusGroup() (focused) or blurGroup() of the current render.
SetGroup(focused) ==
  /\ group.mounted
  /\ LET called == setEach(Manager, 1, focused)
     IN  /\ CommitManager(called)
         /\ group' = [group EXCEPT
                        !.state = GroupReceived(called.w.notifyLog, @)]
  /\ lastOp' = [op |-> IF focused THEN "focusGroup" ELSE "blurGroup"]
  /\ UNCHANGED <<focusedComponentKeys, options, globalFocused, globalCleanup,
                 inDocument, persistVars, hookVars>>

\* The focus of one component of the group changes by itself (its element
\* enters or leaves the viewport, the pointer enters or leaves it): every
\* such change is a setComponentFocus of its key.
GroupComponentFocus(componentKey, focused) ==
  /\ group.mounted
  /\ LET full == fullComponentKey(GroupKey, componentKey)
         called == [Manager EXCEPT !.w = setComponentFocus(@, full, focused)]
     IN  /\ CommitManager(called)
         /\ group' = [group EXCEPT
                        !.state = GroupReceived(called.w.notifyLog, @)]
  /\ lastOp' = [op |-> "setComponentFocus", componentKey |-> componentKey,
                focused |-> focused]
  /\ UNCHANGED <<focusedComponentKeys, options, globalFocused, globalCleanup,
                 inDocument, persistVars, hookVars>>

NextGroup ==
  \/ \E newRefs, newDeps \in BOOLEAN : GroupRender(newRefs, newDeps)
  \/ GroupUnmount
  \/ \E focused \in BOOLEAN : SetGroup(focused)
  \/ \E k \in Range(GroupComponentKeys), focused \in BOOLEAN :
       GroupComponentFocus(k, focused)

SpecGroup == Init /\ [][NextGroup]_vars

(***************************************************************************)
(* Listeners that call back into the manager while they are notified.      *)
(* setComponentFocus holds on to the record it found: the listeners it     *)
(* iterates and the cache handle it dispatches on are read from that       *)
(* object, whatever the listeners did to #components in between.           *)
(***************************************************************************)
\* What a listener does when it is called with true.
Reactions == {"nothing", "blurComponent", "unregisterComponent"}
ListenerReactions == [Listeners -> Reactions]

\* The body of a listener called with true for componentKey.
react(w, componentKey, reaction) ==
  CASE reaction = "blurComponent" -> setComponentFocus(w, componentKey, FALSE)
    [] reaction = "unregisterComponent" -> unregisterComponent(w, componentKey)
    [] OTHER -> w

\* component.listeners.forEach((listener) => { listener(focused) }), from
\* the i-th listener on.
RECURSIVE notifyFrom(_, _, _, _, _, _)
notifyFrom(w, componentKey, listeners, i, focused, reactions) ==
  IF i > Len(listeners) THEN w
  ELSE LET called ==
             [w EXCEPT !.notifyLog =
                 @ \o NotifyListeners(componentKey, << listeners[i] >>, focused),
                       !.callLog =
                 @ \o ListenerCalls(componentKey, << listeners[i] >>, focused)]
           returned == IF focused
                         THEN react(called, componentKey, reactions[listeners[i]])
                         ELSE called
       IN  notifyFrom(returned, componentKey, listeners, i + 1, focused, reactions)

\* Variant: after the listeners the record is looked up again, and the
\* policy runs only if the key is still registered and focused.
setComponentFocusWith_ChecksAgain(w, componentKey, focused, reactions) ==
  IF componentKey \notin DOMAIN w.components THEN w
  ELSE
    LET component == w.components[componentKey]
        previouslyFocused == component.focused
        w1 == [w EXCEPT !.components[componentKey].focused = focused,
                        !.focusLog = IF previouslyFocused # focused
                                       THEN Append(@, [key |-> componentKey,
                                                       focused |-> focused])
                                       ELSE @]
    IN  IF previouslyFocused = focused THEN w1
        ELSE
          LET w2 == notifyFrom(w1, componentKey, component.listeners, 1,
                               focused, reactions)
          IN  IF /\ focused
                 /\ component.queryClient # NoClient
                 /\ componentKey \in DOMAIN w2.components
                 /\ w2.components[componentKey].focused
                THEN [w2 EXCEPT !.dispatchLog = Append(@,
                        [key |-> componentKey, client |-> component.queryClient,
                         calls |-> handleComponentFocus(component.queryClient,
                                                        component.options)]),
                                    !.callLog = Append(@,
                        PolicyCall(componentKey, component.queryClient))]
                ELSE w2

\* setComponentFocus(componentKey, focused) with listeners that react.
setComponentFocusWith(w, componentKey, focused, reactions) ==
  IF componentKey \notin DOMAIN w.components THEN w
  ELSE
    LET component == w.components[componentKey]
        previouslyFocused == component.focused
        w1 == [w EXCEPT !.components[componentKey].focused = focused,
                        !.focusLog = IF previouslyFocused # focused
                                       THEN Append(@, [key |-> componentKey,
                                                       focused |-> focused])
                                       ELSE @]
    IN  IF previouslyFocused = focused THEN w1
        ELSE
          LET w2 == notifyFrom(w1, componentKey, component.listeners, 1,
                               focused, reactions)
          IN  IF focused /\ component.queryClient # NoClient
                THEN [w2 EXCEPT !.dispatchLog = Append(@,
                        [key |-> componentKey, client |-> component.queryClient,
                         calls |-> handleComponentFocus(component.queryClient,
                                                        component.options)]),
                                    !.callLog = Append(@,
                        PolicyCall(componentKey, component.queryClient))]
                ELSE w2

\* focusComponent or blurComponent of a key whose listeners react.
SetComponentFocusWith(componentKey, focused, reactions) ==
  /\ lastOp' = [op |-> "setComponentFocusWith", key |-> componentKey,
                focused |-> focused, reactions |-> reactions]
  /\ Commit(setComponentFocusWith(World, componentKey, focused, reactions))
  /\ warnLog' = << >>
  /\ UNCHANGED <<outerVars, options, globalFocused, globalCleanup, registrations,
                 pointerHandlers, inDocument>>

NextReentrant ==
  \/ \E e \in Elements, c \in Clients \cup {NoClient}, o \in OtherOptionChoices :
       RegisterComponent("a", e, c, o)
  \/ UnregisterComponent("a")
  \/ \E l \in Listeners : SubscribeToComponent("a", l)
  \/ \E id \in 1..MaxRegs, l \in Listeners : Unsubscribe(id, l)
  \/ \E v \in BOOLEAN, reactions \in ListenerReactions :
       SetComponentFocusWith("a", v, reactions)

SpecReentrant == Init /\ [][NextReentrant]_vars

(***************************************************************************)
(* Properties                                                              *)
(***************************************************************************)
\* The entries of a log made for key k, in order.
EntriesFor(log, k) == SelectSeq(log, LAMBDA x : x.key = k)

\* One call of each listener in listeners, in order, with value focused.
EachListenerOnce(k, listeners, focused) ==
  [i \in 1..Len(listeners) |-> [key |-> k, listener |-> listeners[i], focused |-> focused]]

\* The focus gains of key k among the logged changes.
GainsOf(log, k) == SelectSeq(log, LAMBDA x : x.key = k /\ x.focused)

\* A host event that sets the global flag to false.
HideStep == HandleWindowBlur \/ HandleVisibilityChange("hidden")

\* A host event that sets the global flag to true.
ShowStep == HandleWindowFocus \/ HandleVisibilityChange("visible")

\* C1: a host event that sets the global flag to false (visibilitychange
\* reporting hidden, or window blur) leaves every registered record
\* unfocused, calls each listener of every record that was focused once with
\* false, calls no listener of a record that was already unfocused, and runs
\* no refresh policy.
C1_GlobalHideBlursFocusedRecords ==
  [][HideStep =>
       /\ ~globalFocused'
       /\ DOMAIN components' = DOMAIN components
       /\ \A k \in DOMAIN components :
            /\ ~components'[k].focused
            /\ EntriesFor(notifyLog', k) =
                 IF components[k].focused
                   THEN EachListenerOnce(k, components[k].listeners, FALSE)
                   ELSE << >>
       /\ \A i \in 1..Len(notifyLog') : notifyLog'[i].key \in DOMAIN components
       /\ dispatchLog' = << >>]_vars

\* C1 witness: after a window blur, of two registered records with a
\* listener and a QueryClient one was notified of its forced blur and the
\* other, already unfocused, was not.
C1_Witness ==
  /\ lastOp.op = "blur"
  /\ ~globalFocused
  /\ DOMAIN components = {"a", "b"}
  /\ \A k \in DOMAIN components :
       components[k].listeners = <<"l1">> /\ components[k].queryClient # NoClient
  /\ notifyLog = << [key |-> "a", listener |-> "l1", focused |-> FALSE] >>
  /\ focusLog = << [key |-> "a", focused |-> FALSE] >>

\* C2: in every operation, the refresh policy runs for a key once per change
\* of its focused flag from false to true made while the record holds a
\* QueryClient, on that QueryClient, and never otherwise: not on a change
\* from true to false, and not on a focus gain of a record without one.
C2_DispatchOncePerFocusGain ==
  \A k \in Keys :
    LET runs == EntriesFor(dispatchLog, k)
    IN  /\ Len(runs) =
             IF k \in DOMAIN components /\ components[k].queryClient # NoClient
               THEN Len(GainsOf(focusLog, k))
               ELSE 0
        /\ \A i \in 1..Len(runs) : runs[i].client = components[k].queryClient

\* C2 witness: an intersection callback delivered a loss and then a gain of
\* focus to a record with a QueryClient: two changes, one run of the policy.
C2_Witness ==
  /\ lastOp = [op |-> "intersection", key |-> "a"]
  /\ focusLog = << [key |-> "a", focused |-> FALSE], [key |-> "a", focused |-> TRUE] >>
  /\ Len(dispatchLog) = 1
  /\ dispatchLog[1].key = "a"

\* The configuration a run of the policy for key k works on: the manager's
\* options overridden, field by field, by the record's.
MergedFor(k) == Spread(options, components[k].options)

\* filters is base with field f set to v.
OverriddenWith(filters, base, f, v) ==
  /\ DOMAIN filters = (DOMAIN base) \cup {f}
  /\ filters[f] = v
  /\ \A g \in (DOMAIN base) \ {f} : filters[g] = base[g]

\* C3: the action of a run of the policy follows the priority reset, then
\* invalidate, then refetch: resetOnFocus true gives resetQueries(queryFilters)
\* alone; else invalidateOnFocus true gives invalidateQueries alone; else
\* refetchOnFocus true gives refetchQueries alone, of the active queries
\* matching queryFilters.
C3_PolicyPriority ==
  \A i \in 1..Len(dispatchLog) :
    LET d == dispatchLog[i]
        merged == MergedFor(d.key)
        reset == merged["resetOnFocus"] = True
        invalidate == merged["invalidateOnFocus"] = True
        refetch == merged["refetchOnFocus"] = True
    IN  /\ reset =>
             d.calls = << [method |-> "resetQueries", filters |-> FiltersOf(merged)] >>
        /\ (~reset /\ invalidate) =>
             (Len(d.calls) = 1 /\ d.calls[1].method = "invalidateQueries")
        /\ (~reset /\ ~invalidate /\ refetch) =>
             /\ Len(d.calls) = 1
             /\ d.calls[1].method = "refetchQueries"
             /\ OverriddenWith(d.calls[1].filters, FiltersOf(merged), "type", "active")

\* C3 witness: a focus gain under a configuration with resetOnFocus,
\* invalidateOnFocus and refetchOnFocus all true called resetQueries with the
\* configured filters.
C3_Witness ==
  /\ lastOp = [op |-> "setComponentFocus", key |-> "a", focused |-> TRUE]
  /\ Len(dispatchLog) = 1
  /\ \A f \in {"resetOnFocus", "invalidateOnFocus", "refetchOnFocus"} :
       MergedFor("a")[f] = True
  /\ dispatchLog[1].calls =
       << [method |-> "resetQueries", filters |-> [queryKey |-> "todos"]] >>

\* C4 as stated: every run of the policy makes exactly one call.
C4_ExactlyOneAction ==
  \A i \in 1..Len(dispatchLog) : Len(dispatchLog[i].calls) = 1

\* C4, amended: a focus gain of a record with a QueryClient runs the policy
\* once; the run makes at most one call, one of resetQueries,
\* invalidateQueries and refetchQueries, and makes one exactly when at least
\* one of resetOnFocus, invalidateOnFocus, refetchOnFocus is true in the
\* merged configuration.
C4_AtMostOneAction ==
  /\ \A k \in DOMAIN components :
       components[k].queryClient # NoClient =>
         Len(EntriesFor(dispatchLog, k)) = Len(GainsOf(focusLog, k))
  /\ \A i \in 1..Len(dispatchLog) :
       LET d == dispatchLog[i]
           merged == MergedFor(d.key)
       IN  /\ Len(d.calls) <= 1
           /\ Len(d.calls) = 1 <=>
                \E f \in {"resetOnFocus", "invalidateOnFocus", "refetchOnFocus"} :
                  merged[f] = True
           /\ \A j \in 1..Len(d.calls) :
                d.calls[j].method \in {"resetQueries", "invalidateQueries", "refetchQueries"}

\* C4 witness: a focus gain of a record with a QueryClient whose merged
\* configuration has none of the three flags true ran the policy, which
\* called nothing.
C4_Witness ==
  /\ lastOp = [op |-> "setComponentFocus", key |-> "a", focused |-> TRUE]
  /\ focusLog = << [key |-> "a", focused |-> TRUE] >>
  /\ "a" \in DOMAIN components
  /\ components["a"].queryClient = "q1"
  /\ dispatchLog = << [key |-> "a", client |-> "q1", calls |-> << >>] >>

\* C5: with resetOnFocus not true and invalidateOnFocus true in the merged
\* configuration, a run of the policy calls invalidateQueries alone, with the
\* configured filters and refetchType "all" if forceRefetch is true and
\* "active" otherwise; under the constructor defaults and no component
\* options the call is invalidateQueries({refetchType: "all"}).
C5_InvalidateBreadth ==
  \A i \in 1..Len(dispatchLog) :
    LET d == dispatchLog[i]
        merged == MergedFor(d.key)
    IN  /\ (merged["resetOnFocus"] # True /\ merged["invalidateOnFocus"] = True) =>
             /\ Len(d.calls) = 1
             /\ d.calls[1].method = "invalidateQueries"
             /\ OverriddenWith(d.calls[1].filters, FiltersOf(merged), "refetchType",
                               IF merged["forceRefetch"] = True THEN "all" ELSE "active")
        /\ (options = DefaultOptions /\ components[d.key].options = EmptyObject) =>
             d.calls = << [method |-> "invalidateQueries",
                           filters |-> [refetchType |-> "all"]] >>

\* C5 witness: a focus gain under the constructor defaults and no component
\* options called invalidateQueries with refetchType "all".
C5_Witness ==
  /\ lastOp = [op |-> "setComponentFocus", key |-> "a", focused |-> TRUE]
  /\ options = DefaultOptions
  /\ "a" \in DOMAIN components
  /\ components["a"].options = EmptyObject
  /\ Len(dispatchLog) = 1
  /\ dispatchLog[1].calls[1].method = "invalidateQueries"
  /\ dispatchLog[1].calls[1].filters["refetchType"] = "all"

\* C6: setComponentFocus(k, v) on a registered key whose focused flag is
\* already v calls no listener, runs no policy and changes nothing; when the
\* flag differs it calls each listener once with v.  So of two calls in a
\* row with the same v, only the first notifies.
C6_RepeatedSetIsSilent ==
  [][\A k \in Keys, v \in BOOLEAN :
       (SetComponentFocus(k, v) /\ k \in DOMAIN components) =>
         IF components[k].focused = v
           THEN /\ notifyLog' = << >>
                /\ dispatchLog' = << >>
                /\ focusLog' = << >>
                /\ components' = components
           ELSE /\ notifyLog' = EachListenerOnce(k, components[k].listeners, v)
                /\ components'[k].focused = v]_vars

\* C6 witness: setComponentFocus("a", true) on a record with two listeners
\* and a QueryClient that was focused already: nothing was called.
C6_Witness ==
  /\ lastOp = [op |-> "setComponentFocus", key |-> "a", focused |-> TRUE]
  /\ "a" \in DOMAIN components
  /\ components["a"].focused
  /\ Len(components["a"].listeners) = 2
  /\ components["a"].queryClient # NoClient
  /\ focusLog = << >>
  /\ notifyLog = << >>
  /\ dispatchLog = << >>

\* C7: subscribeToComponent(k, listener) on a registered key calls that
\* listener once with the record's focused flag, calls no other listener,
\* runs no policy and leaves every focused flag as it was.
C7_SubscribeNotifiesOnce ==
  [][\A k \in Keys, l \in Listeners :
       (SubscribeToComponent(k, l) /\ k \in DOMAIN components) =>
         /\ notifyLog' = << [key |-> k, listener |-> l,
                             focused |-> components[k].focused] >>
         /\ dispatchLog' = << >>
         /\ focusLog' = << >>
         /\ DOMAIN components' = DOMAIN components
         /\ \A j \in DOMAIN components :
              components'[j].focused = components[j].focused]_vars

\* C7 witness: the second listener subscribed to a focused record and was
\* called, alone, with true.
C7_Witness ==
  /\ lastOp = [op |-> "subscribeToComponent", key |-> "a"]
  /\ "a" \in DOMAIN components
  /\ components["a"].listeners = <<"l1", "l2">>
  /\ components["a"].focused
  /\ notifyLog = << [key |-> "a", listener |-> "l2", focused |-> TRUE] >>

\* C8: right after registerComponent(k, element) with an element,
\* isComponentFocused(k) is false, whatever the record under k and the
\* global flag were before.
C8_RegisteredUnfocused ==
  (lastOp.op = "registerComponent" /\ warnLog = << >>) =>
    (lastOp.key \in DOMAIN components /\ ~isComponentFocused(lastOp.key))

\* C8 witness: key "a" was registered a second time while the global flag
\* was false.
C8_Witness ==
  /\ lastOp = [op |-> "registerComponent", key |-> "a"]
  /\ warnLog = << >>
  /\ Len(registrations) = 2
  /\ registrations[1].key = "a"
  /\ registrations[2] = [key |-> "a", element |-> "e2"]
  /\ ~globalFocused

\* C9: a host event that takes the global flag from false to true (window
\* focus, or visibilitychange reporting visible) changes no record, calls no
\* listener and runs no policy; a focused flag becomes true only in an
\* intersection callback, a mouseenter handler or a setComponentFocus /
\* focusComponent call.
C9_ShowRestoresNothing ==
  [][/\ (ShowStep /\ ~globalFocused) =>
          /\ globalFocused'
          /\ components' = components
          /\ focusLog' = << >>
          /\ notifyLog' = << >>
          /\ dispatchLog' = << >>
     /\ \A i \in 1..Len(focusLog') :
          focusLog'[i].focused =>
            lastOp'.op \in {"intersection", "mouseenter", "setComponentFocus"}]_vars

\* C9 witness: after a window focus event the global flag is true and a
\* record with a listener and a QueryClient is still unfocused, nothing
\* having been called.
C9_Witness ==
  /\ lastOp.op = "focus"
  /\ globalFocused
  /\ "a" \in DOMAIN components
  /\ ~components["a"].focused
  /\ components["a"].listeners = <<"l1">>
  /\ components["a"].queryClient # NoClient
  /\ notifyLog = << >>
  /\ dispatchLog = << >>

\* The element the record under key k was registered with.
ElementOf(k) == registrations[components[k].id].element

\* C10: registering a registered key again with an element disconnects the
\* observers of the prior registration and leaves one record under the key,
\* and no mouse event on an element other than the one a record was
\* registered with changes that record or calls its listeners.
C10_ReRegistrationDiscardsPrior ==
  [][/\ \A k \in DOMAIN components, e \in Elements, c \in Clients \cup {NoClient} :
          RegisterComponent(k, e, c, EmptyObject) =>
            /\ intersectionObservers[k] \notin connectedIO'
            /\ k \in DOMAIN mutationObservers => mutationObservers[k] \notin connectedMO'
            /\ Len(SelectSeq(componentOrder', LAMBDA x : x = k)) = 1
            /\ components'[k].listeners = << >>
     /\ \A e \in Elements :
          (HandleMouseEnter(e) \/ \E v \in BOOLEAN : HandleMouseLeave(e, v)) =>
            \A k \in DOMAIN components :
              ElementOf(k) # e =>
                /\ components'[k] = components[k]
                /\ EntriesFor(notifyLog', k) = << >>]_vars

\* C11: a setComponentFocus(k, v) call that changes the flag calls every
\* listener of the record, in subscription order, and only then runs the
\* refresh policy on the QueryClient; in any operation, each policy run is
\* directly preceded by the whole block of listener calls of its key, no
\* policy run falling between two of them.
C11_ListenersBeforePolicy ==
  [][/\ \A k \in Keys, v \in BOOLEAN :
          (/\ SetComponentFocus(k, v)
           /\ k \in DOMAIN components
           /\ components[k].focused # v) =>
            callLog' = ListenerCalls(k, components[k].listeners, v) \o
                       (IF v /\ components[k].queryClient # NoClient
                          THEN << PolicyCall(k, components[k].queryClient) >>
                          ELSE << >>)
     /\ \A i \in 1..Len(callLog') :
          callLog'[i].call = "policy" =>
            LET k == callLog'[i].key
                n == Len(components'[k].listeners)
            IN  /\ i > n
                /\ SubSeq(callLog', i - n, i - 1) =
                     ListenerCalls(k, components'[k].listeners, TRUE)]_vars

\* C11 witness: "l2" subscribed before "l1"; a focus gain called "l2", then
\* "l1", then ran the policy on the QueryClient.
C11_Witness ==
  /\ lastOp = [op |-> "setComponentFocus", key |-> "a", focused |-> TRUE]
  /\ callLog = << [call |-> "listener", key |-> "a", target |-> "l2", focused |-> TRUE],
                  [call |-> "listener", key |-> "a", target |-> "l1", focused |-> TRUE],
                  [call |-> "policy", key |-> "a", target |-> "q1", focused |-> TRUE] >>

\* C12: blurAllComponents() leaves every registered key unfocused; a record
\* that was focused calls each of its listeners once with false, a record
\* that was not calls nobody, no record is added or removed and the refresh
\* policy does not run.
C12_BlurAllBlursEveryRecord ==
  [][BlurAllComponents =>
       /\ DOMAIN components' = DOMAIN components
       /\ dispatchLog' = << >>
       /\ \A k \in DOMAIN components :
            /\ ~components'[k].focused
            /\ EntriesFor(notifyLog', k) =
                 IF components[k].focused
                   THEN EachListenerOnce(k, components[k].listeners, FALSE)
                   ELSE << >>]_vars

\* C12 witness: blurAllComponents() found two focused records, each with a
\* listener, and blurred and notified both.
C12_Witness ==
  /\ lastOp = [op |-> "blurAllComponents"]
  /\ DOMAIN components = {"a", "b"}
  /\ Len(focusLog) = 2
  /\ Len(notifyLog) = 2
  /\ notifyLog[1].key # notifyLog[2].key
  /\ \A i \in 1..2 : ~notifyLog[i].focused
  /\ \A k \in DOMAIN components : ~components[k].focused

\* The keys getRegisteredComponents() returns, as a set.
RegisteredKeys == Range(getRegisteredComponents)

\* C13: getRegisteredComponents() lists exactly the keys that have a record,
\* each once: a registration with an element adds its key, unregisterComponent
\* and a teardown remove theirs, destroy removes all, and no other operation
\* changes the list.
C13_RegisteredKeysAreTheRecords ==
  [][/\ RegisteredKeys' = DOMAIN components'
     /\ Len(getRegisteredComponents') = Cardinality(RegisteredKeys')
     /\ RegisteredKeys' =
          CASE lastOp'.op = "registerComponent" /\ warnLog' = << >> ->
                 RegisteredKeys \cup {lastOp'.key}
            [] lastOp'.op \in {"unregisterComponent", "teardown"} ->
                 RegisteredKeys \ {lastOp'.key}
            [] lastOp'.op = "destroy" -> {}
            [] OTHER -> RegisteredKeys]_vars

\* C13 witness: "a" and "b" were registered and "b" unregistered: the list
\* is exactly "a".
C13_Witness ==
  /\ lastOp = [op |-> "unregisterComponent", key |-> "b"]
  /\ registrations = << [key |-> "a", element |-> "e1"],
                        [key |-> "b", element |-> "e2"] >>
  /\ getRegisteredComponents = << "a" >>
  /\ DOMAIN components = {"a"}

\* C14: registerComponent(k, null, ...) warns and changes nothing: no record
\* is made for k, a record already under k keeps its focused flag, listeners,
\* options, QueryClient, observers and mouse handlers, no listener is called
\* and no teardown closure over the manager comes into being.
C14_NullElementChangesNothing ==
  [][\A k \in Keys, c \in Clients \cup {NoClient} :
       RegisterComponent(k, NoElement, c, EmptyObject) =>
         /\ warnLog' # << >>
         /\ UNCHANGED <<managerVars, hostVars>>
         /\ focusLog' = << >>
         /\ notifyLog' = << >>
         /\ dispatchLog' = << >>]_vars

\* C14 witness: registerComponent("a", null) warned while "a" was registered,
\* focused, with a listener: the record and its observers are still there.
C14_Witness ==
  /\ lastOp = [op |-> "registerComponent", key |-> "a"]
  /\ warnLog # << >>
  /\ "a" \in DOMAIN components
  /\ components["a"].focused
  /\ components["a"].listeners = << "l1" >>
  /\ intersectionObservers["a"] \in connectedIO
  /\ components["a"].id \in pointerHandlers

\* C15: subscribeToComponent(k, listener) on an unregistered key warns, calls
\* nobody and changes nothing.  A listener gets into a record's set only by
\* a subscribeToComponent on that record's key while it is registered, and
\* only listeners of the record's set (or the one just subscribed) are ever
\* called: a listener refused on an unregistered key is not called after a
\* later registration of the key.
C15_SubscribeUnregisteredRefused ==
  [][/\ \A k \in Keys, l \in Listeners :
          (SubscribeToComponent(k, l) /\ k \notin DOMAIN components) =>
            /\ warnLog' # << >>
            /\ UNCHANGED <<managerVars, hostVars>>
            /\ notifyLog' = << >>
            /\ callLog' = << >>
     /\ \A k \in DOMAIN components' :
          \A l \in Range(components'[k].listeners) :
            /\ k \in DOMAIN components
            /\ components[k].id = components'[k].id
            /\ \/ l \in Range(components[k].listeners)
               \/ lastOp'.op = "subscribeToComponent" /\ lastOp'.key = k
     /\ \A i \in 1..Len(notifyLog') :
          LET k == notifyLog'[i].key
          IN  /\ k \in DOMAIN components
              /\ \/ notifyLog'[i].listener \in Range(components[k].listeners)
                 \/ lastOp'.op = "subscribeToComponent" /\ lastOp'.key = k]_vars

\* C15 witness: after a registration of "a" was torn down, a subscription to
\* "a" was refused with a warning: no record, no call.
C15_Witness ==
  /\ lastOp = [op |-> "subscribeToComponent", key |-> "a"]
  /\ warnLog # << >>
  /\ Len(registrations) = 1
  /\ components = NoEntries
  /\ notifyLog = << >>

\* C16: setComponentFocus(k, v), focusComponent(k) and blurComponent(k) on a
\* key without a record change nothing: no record is made, nobody is called,
\* the refresh policy does not run and isComponentFocused(k) is false after
\* the call as before it.
C16_UnregisteredFocusIsNoOp ==
  [][\A k \in Keys :
       (/\ k \notin DOMAIN components
        /\ \/ \E v \in BOOLEAN : SetComponentFocus(k, v)
           \/ FocusComponent(k)
           \/ BlurComponent(k)) =>
         /\ UNCHANGED <<managerVars, hostVars>>
         /\ focusLog' = << >>
         /\ notifyLog' = << >>
         /\ dispatchLog' = << >>
         /\ callLog' = << >>
         /\ ~isComponentFocused(k)
         /\ ~isComponentFocused(k)']_vars

\* C16 witness: "b" was registered and unregistered; setComponentFocus("b",
\* true) then left it without a record and unfocused, next to a registered
\* "a".
C16_Witness ==
  /\ lastOp = [op |-> "setComponentFocus", key |-> "b", focused |-> TRUE]
  /\ "b" \notin DOMAIN components
  /\ "a" \in DOMAIN components
  /\ \E i \in 1..Len(registrations) : registrations[i].key = "b"
  /\ ~isComponentFocused("b")
  /\ notifyLog = << >>

\* C17: the teardown closure of a registration of key k with an element
\* detaches that registration's mouse handlers and leaves k without record
\* and observers, other keys untouched; run again right after itself it
\* changes nothing, unregisterComponent(k) being without effect on a key
\* just unregistered.
C17_TeardownDetachesAndIsIdempotent ==
  [][\A id \in 1..Len(registrations) :
       Teardown(id) =>
         LET k == registrations[id].key
             once == unregisterComponent(World, k)
         IN  /\ id \notin pointerHandlers'
             /\ pointerHandlers' = pointerHandlers \ {id}
             /\ k \notin DOMAIN components'
             /\ k \notin DOMAIN intersectionObservers'
             /\ k \notin DOMAIN mutationObservers'
             /\ k \notin Range(getRegisteredComponents')
             /\ \A j \in (DOMAIN components) \ {k} :
                  j \in DOMAIN components' /\ components'[j] = components[j]
             /\ unregisterComponent(once, k) = once
             /\ (lastOp = [op |-> "teardown", key |-> k] /\ id \notin pointerHandlers)
                  => UNCHANGED <<managerVars, hostVars>>]_vars

\* C17 witness: the teardown of the only registration ran: its handlers are
\* off the element, the key has no record and no observer is connected.
C17_Witness ==
  /\ lastOp = [op |-> "teardown", key |-> "a"]
  /\ registrations = << [key |-> "a", element |-> "e1"] >>
  /\ pointerHandlers = {}
  /\ components = NoEntries
  /\ connectedIO = {}
  /\ connectedMO = {}
  /\ getRegisteredComponents = << >>

\* C18: the unsubscribe closure of a subscription of listener l to a record
\* deletes l from that record's listeners and does nothing else: the other
\* listeners keep their places, no record of another registration is touched
\* (the key unregistered or registered again included), nobody is called, and
\* a call that finds l gone changes nothing.  A listener outside a record's
\* set is not called by a focus change, so l is not called again for that
\* subscription.
C18_UnsubscribeRemovesOnlyItsListener ==
  [][/\ \A id \in 1..Len(registrations), l \in Listeners :
          Unsubscribe(id, l) =>
            /\ DOMAIN components' = DOMAIN components
            /\ \A k \in DOMAIN components :
                 IF components[k].id = id
                   THEN /\ l \notin Range(components'[k].listeners)
                        /\ components'[k] =
                             [components[k] EXCEPT !.listeners = Without(@, l)]
                   ELSE components'[k] = components[k]
            /\ UNCHANGED <<outerVars, options, componentOrder, globalFocused,
                           intersectionObservers, mutationObservers,
                           globalCleanup, hostVars>>
            /\ notifyLog' = << >>
            /\ dispatchLog' = << >>
            /\ (\A k \in DOMAIN components :
                  components[k].id = id => l \notin Range(components[k].listeners))
                 => UNCHANGED components
     /\ \A i \in 1..Len(callLog') :
          callLog'[i].call = "listener" /\ lastOp'.op # "subscribeToComponent" =>
            /\ callLog'[i].key \in DOMAIN components
            /\ callLog'[i].target \in Range(components[callLog'[i].key].listeners)]_vars

\* C18 witness: "a" was registered again and got listeners "l1" and "l2";
\* the unsubscribe closure of "l1" on the first registration's record then
\* ran and the new record kept both.
C18_Witness ==
  /\ lastOp = [op |-> "unsubscribe", key |-> "a", id |-> 1, listener |-> "l1"]
  /\ Len(registrations) = 2
  /\ "a" \in DOMAIN components
  /\ components["a"].id = 2
  /\ components["a"].listeners = << "l1", "l2" >>

\* C19: updateComponentQueryClient(k, h) on a registered key stores h as the
\* record's QueryClient and changes nothing else: focused, listeners and
\* options stay, nobody is called and the refresh policy does not run; on an
\* unregistered key it changes nothing.  Every run of the refresh policy is
\* made on the QueryClient its record stores at that moment, so after the
\* update on h and no longer on the one before.
C19_QueryClientReplacedAlone ==
  [][/\ \A k \in Keys, h \in Handles :
          UpdateComponentQueryClient(k, h) =>
            /\ components' =
                 IF k \in DOMAIN components
                   THEN [components EXCEPT ![k].queryClient = h]
                   ELSE components
            /\ UNCHANGED <<outerVars, options, componentOrder, globalFocused,
                           intersectionObservers, mutationObservers,
                           globalCleanup, hostVars>>
            /\ focusLog' = << >>
            /\ notifyLog' = << >>
            /\ dispatchLog' = << >>
     /\ \A i \in 1..Len(dispatchLog') :
          /\ dispatchLog'[i].key \in DOMAIN components
          /\ dispatchLog'[i].client = components[dispatchLog'[i].key].queryClient
          /\ dispatchLog'[i].client = components'[dispatchLog'[i].key].queryClient]_vars

\* C19 witness: the record of "a", registered with "q1" or without a
\* QueryClient, was given "q2", and a focus gain then ran the policy on "q2".
C19_Witness ==
  /\ lastOp = [op |-> "setComponentFocus", key |-> "a", focused |-> TRUE]
  /\ Len(dispatchLog) = 1
  /\ dispatchLog[1].key = "a"
  /\ dispatchLog[1].client = "q2"
  /\ components["a"].queryClient = "q2"

\* The QueryClient calls a focus gain makes under configuration config.
CallsUnder(config) ==
  LET filters == IF "queryFilters" \in DOMAIN config
                   THEN config["queryFilters"] ELSE EmptyObject
      on(f) == f \in DOMAIN config /\ config[f] = True
  IN  CASE on("resetOnFocus") ->
             << [method |-> "resetQueries", filters |-> filters] >>
        [] ~on("resetOnFocus") /\ on("invalidateOnFocus") ->
             << [method |-> "invalidateQueries",
                 filters |-> [f \in (DOMAIN filters) \cup {"refetchType"} |->
                                IF f = "refetchType"
                                  THEN (IF on("forceRefetch") THEN "all" ELSE "active")
                                  ELSE filters[f]]] >>
        [] ~on("resetOnFocus") /\ ~on("invalidateOnFocus") /\ on("refetchOnFocus") ->
             << [method |-> "refetchQueries",
                 filters |-> [f \in (DOMAIN filters) \cup {"type"} |->
                                IF f = "type" THEN "active" ELSE filters[f]]] >>
        [] OTHER -> << >>

\* C20: the manager's configuration is the built-in defaults overridden by
\* the constructor's options and never changes; a record's options are those
\* of its registration, overridden field by field by each
\* updateComponentOptions(k, o) in call order and by nothing else;
\* updateComponentOptions on an unregistered key changes nothing; and a focus
\* gain acts under the manager's configuration overridden field by field by
\* the record's options.
C20_MergedConfiguration ==
  [][/\ options' = options
     /\ options \in {Spread(DefaultOptions, o) : o \in ConstructorChoices}
     /\ (lastOp'.op = "registerComponent" /\ warnLog' = << >>) =>
          \A c \in Clients \cup {NoClient}, o \in RegisterOptionChoices :
            RegisterComponent("a", "e1", c, o) => components'["a"].options = o
     /\ \A k \in Keys, o \in UpdateChoices :
          UpdateComponentOptions(k, o) =>
            /\ components' =
                 IF k \in DOMAIN components
                   THEN [components EXCEPT ![k].options = Spread(@, o)]
                   ELSE components
            /\ UNCHANGED <<componentOrder, globalFocused, intersectionObservers,
                           mutationObservers, globalCleanup, hostVars>>
            /\ notifyLog' = << >>
            /\ dispatchLog' = << >>
     /\ lastOp'.op \notin {"registerComponent", "updateComponentOptions"} =>
          \A k \in (DOMAIN components) \cap (DOMAIN components') :
            components'[k].options = components[k].options
     /\ \A i \in 1..Len(dispatchLog') :
          dispatchLog'[i].calls =
            CallsUnder(Spread(options, components[dispatchLog'[i].key].options))]_vars

\* C20 witness: under the default configuration a record whose options hold
\* resetOnFocus false, invalidateOnFocus undefined and forceRefetch false
\* gained focus: the undefined invalidateOnFocus overrode the default and
\* refetchQueries was called for the active queries.
C20_Witness ==
  /\ lastOp = [op |-> "setComponentFocus", key |-> "a", focused |-> TRUE]
  /\ options = DefaultOptions
  /\ "a" \in DOMAIN components
  /\ components["a"].options =
       [resetOnFocus |-> False, invalidateOnFocus |-> Undefined,
        forceRefetch |-> False]
  /\ Len(dispatchLog) = 1
  /\ dispatchLog[1].calls =
       << [method |-> "refetchQueries", filters |-> [type |-> "active"]] >>

\* C21: destroy() leaves no record and no observer and detaches the global
\* listeners for good: afterwards no visibilitychange, focus or blur handler
\* runs and the global flag keeps its value; destroy() on a destroyed manager
\* changes nothing; a key registered afterwards gets a record and a
\* connected intersection observer.
C21_DestroyLeavesNothing ==
  [][/\ Destroy =>
          /\ components' = NoEntries
          /\ getRegisteredComponents' = << >>
          /\ intersectionObservers' = NoEntries
          /\ mutationObservers' = NoEntries
          /\ connectedIO' = {}
          /\ connectedMO' = {}
          /\ ~globalCleanup'
          /\ notifyLog' = << >>
          /\ dispatchLog' = << >>
          /\ (~globalCleanup /\ components = NoEntries)
               => UNCHANGED <<managerVars, hostVars>>
     /\ ~globalCleanup =>
          /\ ~globalCleanup'
          /\ globalFocused' = globalFocused
          /\ lastOp'.op \notin {"visibilitychange", "focus", "blur"}
          /\ (lastOp'.op = "registerComponent" /\ warnLog' = << >>) =>
               /\ lastOp'.key \in DOMAIN components'
               /\ intersectionObservers'[lastOp'.key] \in connectedIO']_vars

\* C21 witness: a manager with a registration was destroyed and "a" was
\* registered after that: it has a record, the global listeners are gone.
C21_Witness ==
  /\ lastOp = [op |-> "registerComponent", key |-> "a"]
  /\ warnLog = << >>
  /\ ~globalCleanup
  /\ Len(registrations) = 2
  /\ DOMAIN components = {"a"}
  /\ components["a"].id = 2

\* The values of a function.
Image(f) == {f[k] : k \in DOMAIN f}

\* C22: the keys holding an intersection observer are the registered keys
\* and those holding a mutation observer are among them; the connected
\* observers are exactly the ones held, each made by the registration of its
\* key's record, and only connected mutation observers have queued records.
\* A step that removes or replaces a record (unregisterComponent, teardown,
\* registration again, the mutation callback of a detached element, destroy)
\* leaves the record's observers disconnected, so their callbacks cannot run.
C22_ObserversFollowRecords ==
  [][/\ DOMAIN intersectionObservers' = DOMAIN components'
     /\ DOMAIN mutationObservers' \subseteq DOMAIN components'
     /\ connectedIO' = Image(intersectionObservers')
     /\ connectedMO' = Image(mutationObservers')
     /\ pendingMutations' \subseteq connectedMO'
     /\ \A k \in DOMAIN components' :
          /\ intersectionObservers'[k] = components'[k].id
          /\ k \in DOMAIN mutationObservers' =>
               mutationObservers'[k] = components'[k].id
     /\ \A k \in DOMAIN components :
          (k \notin DOMAIN components' \/ components'[k].id # components[k].id) =>
            /\ components[k].id \notin connectedIO'
            /\ components[k].id \notin connectedMO'
            /\ components[k].id \notin pendingMutations'
     /\ lastOp'.op \in {"intersection", "mutation"} =>
          (lastOp'.key \in DOMAIN components)]_vars

\* C22 witness: the element of "a" left the document and the mutation
\* callback of its registration unregistered "a"; "b" alone holds observers.
C22_Witness ==
  /\ lastOp = [op |-> "mutation", key |-> "a"]
  /\ Len(registrations) = 2
  /\ DOMAIN components = {"b"}
  /\ DOMAIN intersectionObservers = {"b"}
  /\ connectedIO = {components["b"].id}
  /\ connectedMO = {components["b"].id}
  /\ "e1" \notin inDocument

\* The operations whose code calls setComponentFocus.
SetOperations ==
  {"setComponentFocus", "blurAllComponents", "visibilitychange", "blur",
   "focus", "intersection", "mouseenter", "mouseleave"}

\* C23: a key is unregistered, registered and unfocused, or registered and
\* focused.  A record that comes into being (for a key that had none, or in
\* place of the record a registration tore down) is unfocused and is made
\* by registerComponent; a record's focused flag changes only inside
\* setComponentFocus, called by a set operation, the last change made there
\* being the value the flag ends with; a record goes away only by
\* unregisterComponent, a teardown, a registration of its key or destroy.
C23_KeyStateMachine ==
  [][\A k \in Keys :
       /\ (k \in DOMAIN components' /\
           (k \notin DOMAIN components \/ components[k].id # components'[k].id)) =>
            /\ ~components'[k].focused
            /\ lastOp' = [op |-> "registerComponent", key |-> k]
            /\ EntriesFor(focusLog', k) = << >>
       /\ (k \in DOMAIN components /\ k \in DOMAIN components' /\
           components[k].id = components'[k].id) =>
            LET changes == EntriesFor(focusLog', k)
            IN  /\ components'[k].focused # components[k].focused =>
                     /\ changes # << >>
                     /\ lastOp'.op \in SetOperations
                /\ changes # << >> =>
                     changes[Len(changes)].focused = components'[k].focused
                /\ \A i \in 1..Len(changes) :
                     changes[i].focused =
                       (IF i = 1 THEN ~components[k].focused
                                 ELSE ~changes[i - 1].focused)
       /\ (k \in DOMAIN components /\ k \notin DOMAIN components') =>
            /\ lastOp'.op \in {"unregisterComponent", "teardown", "destroy"}
            /\ EntriesFor(focusLog', k) = << >>]_vars

\* C23 witness: "a" was registered, and registered again, and the second
\* record, unfocused at first, was focused by setComponentFocus.
C23_Witness ==
  /\ lastOp = [op |-> "setComponentFocus", key |-> "a", focused |-> TRUE]
  /\ focusLog = << [key |-> "a", focused |-> TRUE] >>
  /\ Len(registrations) = 2
  /\ "a" \in DOMAIN components
  /\ components["a"].id = 2
  /\ registrations[1].key = "a"
  /\ components["a"].focused

\* C24: the global flag is true after construction; the visibilitychange
\* handler sets it to whether the document is visible, the focus handler to
\* true, the blur handler to false, whatever it was; no other operation
\* changes it, and isGloballyFocused() returns it.
C24_GlobalFlagFollowsHostEvents ==
  /\ isGloballyFocused = TRUE
  /\ [][/\ \A s \in {"visible", "hidden"} :
             HandleVisibilityChange(s) => isGloballyFocused' = (s = "visible")
        /\ HandleWindowFocus => isGloballyFocused'
        /\ HandleWindowBlur => ~isGloballyFocused'
        /\ lastOp'.op \notin {"visibilitychange", "focus", "blur"} =>
             isGloballyFocused' = isGloballyFocused
        /\ isGloballyFocused' = globalFocused']_vars

\* C24 witness: a host event cleared the global flag and a subscription made
\* afterwards found and left it false.
C24_Witness ==
  /\ lastOp = [op |-> "subscribeToComponent", key |-> "a"]
  /\ warnLog = << >>
  /\ ~isGloballyFocused
  /\ "a" \in DOMAIN components

\* C25: where the host has no window, document and observer classes the
\* global flag stays true, and registerComponent with an element stores the
\* record, installs no observer and ends without an exception.
C25_ServerRegistrationDegrades ==
  [][~browser =>
       /\ globalFocused'
       /\ \A k \in Keys, e \in Elements, c \in Clients \cup {NoClient} :
            RegisterComponent(k, e, c, EmptyObject) =>
              /\ k \in DOMAIN components'
              /\ ~components'[k].focused
              /\ connectedIO' = {}
              /\ connectedMO' = {}
              /\ thrown' = << >>]_vars

\* C26: while a persistQueryClientSubscribe subscription is active, every
\* query-cache or mutation-cache event of type added, removed or updated
\* triggers exactly one persister.persistClient call for it, an event of any
\* other type triggers none, and a subscription whose unsubscribe was called
\* triggers none for any event.
ActiveSubscriptions ==
  {i \in 1..Len(cacheSubscriptions) :
     cacheSubscriptions[i].queryCache /\ cacheSubscriptions[i].mutationCache}

SavesFor(log, subscription) ==
  Cardinality({j \in 1..Len(log) :
                 log[j].call = "persistClient"
                 /\ log[j].subscription = subscription})

C26_SaveOncePerCacheEvent ==
  [][(lastOp'.op = "cacheEvent" /\ eventsEmitted' = eventsEmitted + 1)
       => /\ \A i \in 1..Len(cacheSubscriptions) :
               SavesFor(persistLog', i) =
                 IF i \in ActiveSubscriptions
                    /\ lastOp'.type \in {"added", "removed", "updated"}
                 THEN 1 ELSE 0
          /\ saveCount' - saveCount =
               IF lastOp'.type \in {"added", "removed", "updated"}
               THEN Cardinality(ActiveSubscriptions) ELSE 0]_vars

\* A mutation-cache update with the first subscription cancelled and the
\* second active: one save, made for the second.
C26_Witness ==
  /\ lastOp.op = "cacheEvent"
  /\ lastOp.cache = "mutationCache"
  /\ lastOp.type = "updated"
  /\ Len(cacheSubscriptions) = 2
  /\ ActiveSubscriptions = {2}
  /\ SavesIn(persistLog) = 1
  /\ SavesFor(persistLog, 2) = 1
  /\ saveCount = 3

\* C27: persistQueryClientRestore hydrates only from data that is present,
\* not older than maxAge and of the same buster; for expired, busted or empty
\* data and for a throwing restore it runs persister.removeClient and
\* hydrates nothing, and a thrown error is re-thrown after removeClient.
Called(name) == \E j \in 1..Len(persistLog) : persistLog[j].call = name

C27_RestoreHydratesOrRemoves ==
  lastOp.op = "persistQueryClientRestore"
    => LET present == lastOp.restored = "client"
           expired == lastOp.now - lastOp.timestamp > lastOp.maxAge
           busted == lastOp.clientBuster # lastOp.buster
           empty == lastOp.restored = "undefined"
           throws == lastOp.restored = "throws"
       IN  /\ Called("hydrate") => present /\ ~expired /\ ~busted
           /\ (throws \/ empty \/ (present /\ (expired \/ busted)))
                => Called("removeClient") /\ ~Called("hydrate")
           /\ throws
                => /\ persistLog[Len(persistLog)].call = "throw"
                   /\ persistLog[Len(persistLog) - 1].call = "removeClient"

\* C28: the AutoFocus timeout calls the manager's focusComponent only when
\* autoFocusDelay has elapsed since it was set, with the component still
\* rendered with autoFocus true and with the inputs the timeout was set
\* for; a pending timeout always belongs to the current render, one set
\* anew starts from zero, and none is left after the component is removed
\* or rendered with autoFocus false.
C28_AutoFocusTimerIsCancellable ==
  [][/\ lastOp'.op = "autoFocusTimer"
          => /\ timer # << >>
             /\ timer[1].elapsed = timer[1].delay
             /\ hook.mounted
             /\ hook.props.autoFocus
             /\ timer[1].delay = hook.props.autoFocusDelay
             /\ timer[1].key = hook.props.componentKey
             /\ timer[1].enabled = hook.props.enabled
             /\ hookLog' = IF hook.props.enabled
                             THEN << "focusComponent" >> ELSE << >>
     /\ (\E j \in 1..Len(hookLog') : hookLog'[j] = "focusComponent")
          => lastOp'.op \in {"autoFocusTimer", "setFocus"}
     /\ timer' # << >>
          => /\ hook'.mounted
             /\ hook'.props.autoFocus
             /\ timer'[1].delay = hook'.props.autoFocusDelay
             /\ timer'[1].key = hook'.props.componentKey
             /\ timer'[1].enabled = hook'.props.enabled
             /\ timer'[1].elapsed <= timer'[1].delay
     /\ (lastOp'.op = "render" /\ timer' # << >>
           /\ (~hook.mounted \/ TimerDeps(hook'.props) # TimerDeps(hook.props)))
          => timer'[1].elapsed = 0
     /\ (~hook'.mounted \/ ~hook'.props.autoFocus) => timer' = << >>]_vars

\* The timeout of a render with a delay of two fired after two ticks and
\* focused the component.
C28_Witness ==
  /\ lastOp.op = "autoFocusTimer"
  /\ hook.mounted
  /\ hook.props.autoFocusDelay = 2
  /\ hookLog = << "focusComponent" >>
  /\ hook.props.componentKey \in DOMAIN components
  /\ components[hook.props.componentKey].focused

\* C29: while the hook is rendered with enabled false it holds no
\* registration and no subscription, its key has no record, and nothing it
\* does (effects, setFocus, focus, blur, the timer) calls the manager; the
\* render that takes enabled from true to false calls the unsubscribe and
\* unregister closures and leaves no record and no pointer handler.
C29_DisabledHookStaysOut ==
  [][/\ (hook'.mounted /\ ~hook'.props.enabled)
          => /\ hookEffect' = << >>
             /\ hook'.props.componentKey \notin DOMAIN components'
             /\ \A k \in DOMAIN components' :
                  HookListener \notin Range(components'[k].listeners)
             /\ \A j \in 1..Len(hookLog') :
                  hookLog'[j] \in {"unsubscribe", "unregister"}
             /\ (hook.mounted /\ ~hook.props.enabled)
                  => /\ hookLog' = << >>
                     /\ components' = components
                     /\ registrations' = registrations
     /\ (hook.mounted /\ hook.props.enabled
           /\ hook'.mounted /\ ~hook'.props.enabled)
          => /\ hookLog' = << "unsubscribe", "unregister" >>
             /\ hook.props.componentKey \notin DOMAIN components'
             /\ pointerHandlers' = {}
             /\ connectedIO' = {}]_vars

\* A hook that was registered while enabled is rendered with enabled false
\* and its focus() is called: nothing reaches the manager.
C29_Witness ==
  /\ lastOp = [op |-> "setFocus", focused |-> TRUE]
  /\ hook.mounted
  /\ ~hook.props.enabled
  /\ Len(registrations) = 1
  /\ hookLog = << >>
  /\ focusLog = << >>
  /\ DOMAIN components = {}

\* C30: a pointer-enter on the element a key is registered with sets the
\* key's focus to true when the global flag is true and changes nothing
\* when it is false; a pointer-leave sets the focus to false when the
\* element's rectangle no longer intersects the viewport and changes
\* nothing while it still does.
C30_PointerEvents ==
  [][lastOp'.op \in {"mouseenter", "mouseleave"} =>
       LET registeredOn ==
             {k \in DOMAIN components :
                /\ ElementOf(k) = lastOp'.element
                /\ components[k].id \in pointerHandlers}
           unchanged == /\ components' = components
                        /\ focusLog' = << >>
                        /\ notifyLog' = << >>
       IN  /\ registeredOn \subseteq DOMAIN components'
           /\ lastOp'.op = "mouseenter"
                => IF globalFocused
                     THEN \A k \in registeredOn : components'[k].focused
                     ELSE unchanged
           /\ lastOp'.op = "mouseleave"
                => IF lastOp'.isInViewport
                     THEN unchanged
                     ELSE \A k \in registeredOn : ~components'[k].focused]_vars

\* The pointer left an element that is out of the viewport, and the key
\* registered with it lost its focus.
C30_Witness ==
  /\ lastOp = [op |-> "mouseleave", element |-> "e1", isInViewport |-> FALSE]
  /\ focusLog = << [key |-> "a", focused |-> FALSE] >>
  /\ "a" \in DOMAIN components
  /\ ElementOf("a") = "e1"
  /\ ~components["a"].focused

\* C31: an intersection callback sets the focus of its key, entry by entry,
\* to (entry.isIntersecting and the global flag): after a batch the flag is
\* that of the last entry, an intersecting entry delivered while the global
\* flag is false and any non-intersecting entry give false, and a one-entry
\* batch has exactly the effect of setComponentFocus with that value: the
\* listeners are called once each, and the refresh policy runs, when and
\* only when the flag changed (the policy on a gain with a QueryClient).
C31_IntersectionEntrySetsFocus ==
  [][\A id \in 1..MaxRegs :
       /\ \A entries \in IntersectionEntryChoices :
            (/\ IntersectionCallback(id, entries)
             /\ registrations[id].key \in DOMAIN components)
              => components'[registrations[id].key].focused =
                   (entries[Len(entries)] /\ globalFocused)
       /\ \A isIntersecting \in BOOLEAN :
            (/\ IntersectionCallback(id, << isIntersecting >>)
             /\ registrations[id].key \in DOMAIN components)
              => LET k == registrations[id].key
                     entryFocus == isIntersecting /\ globalFocused
                     changed == components[k].focused # entryFocus
                 IN  /\ (~isIntersecting \/ ~globalFocused)
                          => ~components'[k].focused
                     /\ notifyLog' =
                          IF changed
                            THEN EachListenerOnce(k, components[k].listeners,
                                                  entryFocus)
                            ELSE << >>
                     /\ focusLog' =
                          IF changed
                            THEN << [key |-> k, focused |-> entryFocus] >>
                            ELSE << >>
                     /\ Len(dispatchLog') =
                          IF changed /\ entryFocus
                             /\ components[k].queryClient # NoClient
                            THEN 1 ELSE 0
                     /\ \A j \in DOMAIN components' \ {k} :
                          components'[j] = components[j]]_vars

\* An intersecting entry arrived while the host was visible: the key gained
\* focus, both listeners were called and the policy ran.
C31_Witness ==
  /\ lastOp = [op |-> "intersection", key |-> "a"]
  /\ globalFocused
  /\ focusLog = << [key |-> "a", focused |-> TRUE] >>
  /\ Len(notifyLog) = 2
  /\ Len(dispatchLog) = 1
  /\ components["a"].focused

\* C32: when the element a key is registered with leaves the document, the
\* mutation observer of the key has the removal queued, and its callback
\* unregisters the key while the element is still outside the document, so
\* that the key does not stay registered.
C32_DetachedElementIsUnregistered ==
  [][/\ \A k \in DOMAIN components :
          (ElementOf(k) \in inDocument /\ ElementOf(k) \notin inDocument')
            => \/ k \notin DOMAIN components'
               \/ /\ k \in DOMAIN mutationObservers'
                  /\ mutationObservers'[k] \in pendingMutations'
     /\ \A id \in 1..MaxRegs :
          (MutationCallback(id) /\ registrations[id].element \notin inDocument)
            => registrations[id].key \notin DOMAIN components']_vars

\* C33: in every reachable state a record whose focused flag is true
\* implies that the global flag is true.
C33_FocusedImpliesGloballyFocused ==
  \A k \in DOMAIN components : components[k].focused => globalFocused

\* C33, amended: a record is focused while the global flag is false only
\* through a manual setComponentFocus / focusComponent call made while the
\* flag is false (and then stays so until blurred); no intersection,
\* pointer or host event produces such a record, and the host event that
\* clears the flag blurs every record.
C33_OnlyManualFocusWhileHidden ==
  [][\A k \in DOMAIN components' :
       (components'[k].focused /\ ~globalFocused')
         => \/ /\ lastOp'.op = "setComponentFocus"
               /\ lastOp'.key = k
               /\ lastOp'.focused
               /\ ~globalFocused
            \/ /\ k \in DOMAIN components
               /\ components[k].focused
               /\ components[k].id = components'[k].id
               /\ ~globalFocused]_vars

\* focusComponent("a") was called after the host was hidden: "a" is focused
\* and the global flag is false.
C33_Witness ==
  /\ lastOp = [op |-> "setComponentFocus", key |-> "a", focused |-> TRUE]
  /\ ~globalFocused
  /\ "a" \in DOMAIN components
  /\ components["a"].focused
  /\ focusLog = << [key |-> "a", focused |-> TRUE] >>

\* C34: unregisterComponent, a teardown, a registerComponent call and
\* destroy call no listener and run no policy, whatever the focus of the
\* records they remove; the record a registerComponent call stores is
\* unfocused, has no listener and holds the QueryClient and the options of
\* that call; a focus change calls the listeners of the record it changes
\* and no other, so that a listener of a removed record keeps the value it
\* received last.
C34_RemovalNeverNotifies ==
  [][/\ lastOp'.op \in {"unregisterComponent", "teardown", "registerComponent",
                        "destroy"}
          => /\ notifyLog' = << >>
             /\ callLog' = << >>
             /\ dispatchLog' = << >>
             /\ focusLog' = << >>
             /\ isFocused' = isFocused
     /\ \A k \in Keys, c \in Clients \cup {NoClient}, o \in OtherOptionChoices :
          RegisterComponent(k, "e2", c, o)
            => components'[k] =
                 [id |-> Len(registrations) + 1, focused |-> FALSE,
                  queryClient |-> c, listeners |-> << >>, options |-> o]
     /\ lastOp'.op = "setFocus"
          => LET k == hook.props.componentKey
                 changed == /\ hook.props.enabled
                            /\ k \in DOMAIN components
                            /\ components[k].focused # lastOp'.focused
             IN  /\ notifyLog' =
                      IF changed
                        THEN EachListenerOnce(k, components[k].listeners,
                                              lastOp'.focused)
                        ELSE << >>
                 /\ isFocused' # isFocused
                      => /\ changed
                         /\ HookListener \in Range(components[k].listeners)]_vars

\* The hook's listener received true, then the other caller unregistered
\* the key: the hook still shows focused and the manager reports false.
C34_Witness ==
  /\ lastOp = [op |-> "unregisterComponent", key |-> "a"]
  /\ hook.mounted
  /\ hook.props.enabled
  /\ hook.props.componentKey = "a"
  /\ isFocused
  /\ ~isComponentFocused("a")
  /\ notifyLog = << >>

\* C35: the closure a registerComponent call returned unregisters whatever
\* record is stored under its key when it is called, the record of a later
\* registration of that key included, and disconnects that record's
\* observers; of the pointer handlers it detaches its own.
C35_TeardownBoundToKey ==
  [][\A id \in 1..MaxRegs :
       Teardown(id)
         => LET k == registrations[id].key
            IN  /\ k \notin DOMAIN components'
                /\ k \notin DOMAIN intersectionObservers'
                /\ k \notin DOMAIN mutationObservers'
                /\ k \in DOMAIN components
                     => /\ components[k].id \notin connectedIO'
                        /\ components[k].id \notin connectedMO'
                /\ pointerHandlers' = pointerHandlers \ {id}]_vars

\* "a" was registered with e1 and again with e2, and the first teardown was
\* called: no record is left, and the handlers of the second registration
\* are still attached.
C35_Witness ==
  /\ lastOp = [op |-> "teardown", key |-> "a"]
  /\ registrations = << [key |-> "a", element |-> "e1"],
                        [key |-> "a", element |-> "e2"] >>
  /\ DOMAIN components = {}
  /\ connectedIO = {}
  /\ connectedMO = {}
  /\ pointerHandlers = {2}

\* C36: the mouse handlers of a registration stay on its element until the
\* teardown of that registration is called: a registerComponent call adds
\* its own, a teardown removes its own, and nothing else (unregistering,
\* registering the key again, the mutation callback, destroy) changes the
\* attached handlers.  A mouseenter on an element therefore acts on the
\* record now stored under the key of each handler on it, a record
\* registered with another element included: while the global flag is true
\* that record is focused, and if this is a change its listeners are called
\* and the policy runs on its QueryClient.
C36_HandlersOutliveTheRecord ==
  [][/\ pointerHandlers' # pointerHandlers
          => \/ /\ lastOp'.op = "registerComponent"
                /\ pointerHandlers' =
                     pointerHandlers \cup {Len(registrations')}
             \/ /\ lastOp'.op = "teardown"
                /\ Cardinality(pointerHandlers \ pointerHandlers') = 1
                /\ pointerHandlers' \subseteq pointerHandlers
     /\ lastOp'.op \in {"unregisterComponent", "destroy", "mutation"}
          => pointerHandlers' = pointerHandlers
     /\ (/\ lastOp'.op = "mouseenter"
         /\ globalFocused
         /\ "a" \in DOMAIN components
         /\ \E id \in pointerHandlers :
              /\ registrations[id].element = lastOp'.element
              /\ registrations[id].key = "a")
          => LET changed == ~components["a"].focused
             IN  /\ components'["a"].focused
                 /\ notifyLog' =
                      IF changed
                        THEN EachListenerOnce("a", components["a"].listeners,
                                              TRUE)
                        ELSE << >>
                 /\ Len(dispatchLog') = IF changed THEN 1 ELSE 0]_vars

\* "a" was registered with e1 and again with e2; a mouseenter on e1 focused
\* the record of the second registration, called its listener and ran the
\* policy.
C36_Witness ==
  /\ lastOp = [op |-> "mouseenter", element |-> "e1"]
  /\ "a" \in DOMAIN components
  /\ components["a"].id = 2
  /\ registrations[2].element = "e2"
  /\ components["a"].focused
  /\ focusLog = << [key |-> "a", focused |-> TRUE] >>
  /\ notifyLog = << [key |-> "a", listener |-> "l1", focused |-> TRUE] >>
  /\ Len(dispatchLog) = 1

\* C37: persistQueryClient subscribes to the caches only when its restore
\* resolves and unsubscribe was not called before: a restore that rejects,
\* or resolves after unsubscribe, creates no subscription, and then no cache
\* event ever triggers a save; once the unsubscribe is called with the
\* subscription in place, the subscription is removed and no later event
\* triggers a save.
C37_SubscribesAfterRestoreUnlessUnsubscribed ==
  [][/\ Len(cacheSubscriptions') > Len(cacheSubscriptions)
          => /\ lastOp'.op = "restoreSettles"
             /\ lastOp'.restored # "throws"
             /\ persistence.restore = "pending"
             /\ ~persistence.hasUnsubscribed
             /\ persistence'.restore = "resolved"
     /\ (lastOp'.op = "restoreSettles" /\ persistence.restore = "pending"
           /\ lastOp'.restored # "throws" /\ ~persistence.hasUnsubscribed)
          => ActiveSubscriptions' = {1}
     /\ persistence'.restore \in {"none", "pending", "rejected"}
          => cacheSubscriptions' = << >>
     /\ cacheSubscriptions' = << >> => saveCount' = 0
     /\ persistence'.hasUnsubscribed
          => /\ ActiveSubscriptions' = {}
             /\ saveCount' = saveCount
             /\ SavesIn(persistLog') = 0]_vars

\* unsubscribe() was called while the restore was pending, the restore then
\* resolved, and three cache events later nothing was saved.
C37_Witness ==
  /\ persistence = [restore |-> "resolved", hasUnsubscribed |-> TRUE,
                    persistQueryClientUnsubscribe |-> 0]
  /\ lastOp.op = "cacheEvent"
  /\ lastOp.type = "added"
  /\ eventsEmitted = 3
  /\ cacheSubscriptions = << >>
  /\ saveCount = 0

\* C38: while the hook stays mounted and enabled, the record of its key
\* holds the flags and queryFilters the hook was rendered with at every
\* focus gain, so that the policy runs with them, also after the hook
\* registered the key again because onFocusChange is another function.
C38_HookOptionsAtEveryGain ==
  (/\ hook.mounted
   /\ lastOp.op \in {"setFocus", "autoFocusTimer"}
   /\ focusLog = << [key |-> hook.props.componentKey, focused |-> TRUE] >>)
    => /\ components[hook.props.componentKey].options = HookOptions(hook.props)
       /\ Len(dispatchLog) = 1
       /\ dispatchLog[1].calls =
            handleComponentFocus(HookClient, HookOptions(hook.props))

\* The component keys of the group whose manager record is focused.
FocusedInManager ==
  {k \in Range(GroupComponentKeys) :
     /\ fullComponentKey(GroupKey, k) \in DOMAIN components
     /\ components[fullComponentKey(GroupKey, k)].focused}

\* C39: for a mounted group, what a render returns as focusedComponentKeys
\* has no duplicates and is the set of the group's component keys whose
\* record is focused; after focusGroup() the state holds every component key
\* and after blurGroup() it is empty.
C39_FocusedKeysMirrorManager ==
  /\ (group.mounted /\ lastOp.op = "groupRender")
       => /\ Cardinality(Range(focusedComponentKeys)) = Len(focusedComponentKeys)
          /\ Range(focusedComponentKeys) = FocusedInManager
  /\ (group.mounted /\ lastOp.op = "focusGroup")
       => Range(group.state) = Range(GroupComponentKeys)
  /\ (group.mounted /\ lastOp.op = "blurGroup") => group.state = << >>

\* The calls with true among the listener calls of a log.
CalledWithTrue(log) == SelectSeq(log, LAMBDA x : x.focused)

\* C40: a listener that blurs or unregisters the key while it is notified
\* of a false-to-true transition stops nothing: every listener of the record
\* is called with true, once and in order, and the refresh policy of the
\* transition is dispatched on the record's cache handle.
C40_ReentrantListenersStopNothing ==
  [][(/\ lastOp'.op = "setComponentFocusWith"
      /\ lastOp'.focused
      /\ lastOp'.key \in DOMAIN components
      /\ ~components[lastOp'.key].focused)
       => LET k == lastOp'.key
              component == components[k]
          IN  /\ CalledWithTrue(notifyLog') =
                   NotifyListeners(k, component.listeners, TRUE)
              /\ component.queryClient # NoClient
                   => /\ dispatchLog' =
                           << [key |-> k, client |-> component.queryClient,
                               calls |-> handleComponentFocus(
                                           component.queryClient,
                                           component.options)] >>
                      /\ callLog'[Len(callLog')] =
                           PolicyCall(k, component.queryClient)]_vars

\* The first of two listeners blurred or unregistered the key; the second
\* was called with true all the same and the policy ran, with the key
\* unfocused or gone afterwards.
C40_Witness ==
  /\ lastOp.op = "setComponentFocusWith"
  /\ lastOp.focused
  /\ Len(CalledWithTrue(notifyLog)) = 2
  /\ lastOp.reactions[CalledWithTrue(notifyLog)[1].listener]
       \in {"blurComponent", "unregisterComponent"}
  /\ Len(dispatchLog) = 1
  /\ \/ lastOp.key \notin DOMAIN components
     \/ ~components[lastOp.key].focused

====
